---- MODULE Spec2Model ----
(***************************************************************************)
(* A model of the request pipeline of the agent server:                    *)
(*   crates/server/src/main.rs    predict_stream_with_agent (the handler)  *)
(*   crates/server/src/agent.rs   AgentService::process_message            *)
(*   crates/server/src/errors.rs  AgentError                               *)
(*   crates/server/src/sse.rs     the event constructors                   *)
(* One request is followed from its arrival to the SSE event list the      *)
(* handler answers with.  Every await of process_message is one action;    *)
(* the collaborators (Redis session store, tool, embedding provider,       *)
(* vector store, Bedrock stream) answer nondeterministically.              *)
(*                                                                         *)
(* Text the code inspects (contains, ends_with, split_whitespace) is a     *)
(* sequence of one-character strings; text the code only copies is a       *)
(* sequence of longer fragments.  Concatenation is \o in both cases.       *)
(***************************************************************************)
EXTENDS Integers, Sequences, FiniteSets, TLC

----------------------------------------------------------------------------
(* Bounds of the model.                                                    *)

\* the Bedrock stream yields at most this many items before it ends
MaxStream == 3

----------------------------------------------------------------------------
(* Text helpers: str::contains, str::ends_with, str::split_whitespace.     *)

Contains(s, sub) ==
    \E i \in 0..(Len(s) - Len(sub)) : SubSeq(s, i + 1, i + Len(sub)) = sub

EndsWith(s, suffix) ==
    /\ Len(suffix) <= Len(s)
    /\ SubSeq(s, Len(s) - Len(suffix) + 1, Len(s)) = suffix

\* the white space the texts of the model can hold
Whitespace == { " ", "\t", "\n" }

RECURSIVE SplitFrom(_, _, _)
SplitFrom(s, i, word) ==
    IF i > Len(s)
    THEN IF word = << >> THEN << >> ELSE << word >>
    ELSE IF s[i] \in Whitespace
         THEN (IF word = << >> THEN << >> ELSE << word >>) \o SplitFrom(s, i + 1, << >>)
         ELSE SplitFrom(s, i + 1, Append(word, s[i]))

SplitWhitespace(s) == SplitFrom(s, 1, << >>)


----------------------------------------------------------------------------
(* Session messages (vector_store/src/models.rs).                          *)

Message(role, content, name) == [role |-> role, content |-> content, name |-> name]

UserMsg(content) == Message("User", content, "None")
AssistantMsg(content) == Message("Assistant", content, "None")

\* the request bodies a client posts
Requests ==
    { << UserMsg(<<"h","i">>) >>,
      << UserMsg(<<"a",".","t","x","t"," ","b",".","r","s">>) >>,
      << UserMsg(<<"h","i">>), AssistantMsg(<<"o","k">>) >>,
      << UserMsg(<<"a",".","t","x","t">>), UserMsg(<<"h","i">>) >>,
      << AssistantMsg(<<"o","k">>) >>,
      << >> }

\* what the session key holds when the request arrives
PriorSessions ==
    { << >>,
      << UserMsg(<<"h","i">>), AssistantMsg(<< "Hi" >>) >> }

----------------------------------------------------------------------------
(* Output events (server/src/sse.rs).  One record shape for every event.   *)

BlankEvent ==
    [event |-> "", tool |-> "", args |-> << >>, duration_ms |-> 0, result |-> << >>,
     content |-> << >>, type |-> "", error |-> << >>, retryable |-> FALSE,
     http_status |-> 0]

create_tool_usage_event(tool_name, args, duration_ms, result) ==
    [BlankEvent EXCEPT !.event = "tool_usage", !.tool = tool_name, !.args = args,
                       !.duration_ms = duration_ms, !.result = result]

create_assistant_output_event(content) ==
    [BlankEvent EXCEPT !.event = "assistant_output", !.content = content]

create_streaming_content_event(content) ==
    [BlankEvent EXCEPT !.event = "content_delta", !.content = content, !.type = "delta"]

create_stream_end_event == [BlankEvent EXCEPT !.event = "stream_end"]

----------------------------------------------------------------------------
(* Error taxonomy (server/src/errors.rs).                                  *)

AgentErrorKinds ==
    { "EmbeddingError", "ToolError", "LlmError", "DatabaseError",
      "VectorStoreError", "SessionError", "ConfigError", "ValidationError" }

AgentError(kind, msg) == [kind |-> kind, msg |-> msg]

\* the table with a Session error answered like a Validation error
http_status_code_SessionAsValidation(error) ==
    CASE error.kind = "EmbeddingError"   -> 500
      [] error.kind = "ToolError"        -> 400
      [] error.kind = "LlmError"         -> 503
      [] error.kind = "DatabaseError"    -> 500
      [] error.kind = "VectorStoreError" -> 500
      [] error.kind = "SessionError"     -> 400
      [] error.kind = "ConfigError"      -> 500
      [] error.kind = "ValidationError"  -> 400

\* AgentError::http_status_code (errors.rs:32-43)
http_status_code(error) ==
    CASE error.kind = "EmbeddingError"   -> 500
      [] error.kind = "ToolError"        -> 400
      [] error.kind = "LlmError"         -> 503
      [] error.kind = "DatabaseError"    -> 500
      [] error.kind = "VectorStoreError" -> 500
      [] error.kind = "SessionError"     -> 422
      [] error.kind = "ConfigError"      -> 500
      [] error.kind = "ValidationError"  -> 400

is_retryable(error) ==
    CASE error.kind = "EmbeddingError"   -> TRUE
      [] error.kind = "ToolError"        -> FALSE
      [] error.kind = "LlmError"         -> TRUE
      [] error.kind = "DatabaseError"    -> TRUE
      [] error.kind = "VectorStoreError" -> TRUE
      [] error.kind = "SessionError"     -> FALSE
      [] error.kind = "ConfigError"      -> FALSE
      [] error.kind = "ValidationError"  -> FALSE

\* the #[error("...")] display of an AgentError
AgentErrorDisplay(error) ==
    CASE error.kind = "EmbeddingError"   -> << "Embedding service error: " >> \o error.msg
      [] error.kind = "ToolError"        -> << "Tool execution error: " >> \o error.msg
      [] error.kind = "LlmError"         -> << "LLM service error: " >> \o error.msg
      [] error.kind = "DatabaseError"    -> << "Database connection error: " >> \o error.msg
      [] error.kind = "VectorStoreError" -> << "Vector store error: " >> \o error.msg
      [] error.kind = "SessionError"     -> << "Session management error: " >> \o error.msg
      [] error.kind = "ConfigError"      -> << "Configuration error: " >> \o error.msg
      [] error.kind = "ValidationError"  -> << "Invalid request: " >> \o error.msg

create_error_event(error) ==
    [BlankEvent EXCEPT !.event = "error_event", !.error = AgentErrorDisplay(error),
                       !.retryable = is_retryable(error),
                       !.http_status = http_status_code(error)]

----------------------------------------------------------------------------
(* The errors process_message returns with `?`.  anyhow's Display prints   *)
(* the outermost context only, so these are the texts the handler sees.    *)

ErrAppendMessage   == <<"F","a","i","l","e","d"," ","t","o"," ","a","p","p","e","n","d"," ","m","e","s","s","a","g","e"," ","t","o"," ","s","e","s","s","i","o","n">>
ErrNoUserMessage   == <<"N","o"," ","u","s","e","r"," ","m","e","s","s","a","g","e"," ","f","o","u","n","d">>
ErrAppendTool      == <<"F","a","i","l","e","d"," ","t","o"," ","a","p","p","e","n","d"," ","t","o","o","l"," ","m","e","s","s","a","g","e"," ","t","o"," ","s","e","s","s","i","o","n">>
ErrGetSession      == <<"F","a","i","l","e","d"," ","t","o"," ","g","e","t"," ","s","e","s","s","i","o","n"," ","m","e","s","s","a","g","e","s">>
ErrAppendAssistant == <<"F","a","i","l","e","d"," ","t","o"," ","a","p","p","e","n","d"," ","a","s","s","i","s","t","a","n","t"," ","m","e","s","s","a","g","e"," ","t","o"," ","s","e","s","s","i","o","n">>

\* Result<Vec<Event>>
Ok(evs)  == [ok |-> TRUE, events |-> evs, err |-> << >>]
Err(msg) == [ok |-> FALSE, events |-> << >>, err |-> msg]
NoResult == [ok |-> FALSE, events |-> << >>, err |-> << "pending" >>]

\* main.rs:52-62, the mapping of an anyhow error to an AgentError
MapToAgentError(e) ==
    IF Contains(e, <<"e","m","b","e","d","d","i","n","g">>) THEN AgentError("EmbeddingError", e)
    ELSE IF Contains(e, <<"t","o","o","l">>) THEN AgentError("ToolError", e)
    ELSE IF Contains(e, <<"L","L","M">>) \/ Contains(e, <<"B","e","d","r","o","c","k">>) THEN AgentError("LlmError", e)
    ELSE IF Contains(e, <<"d","a","t","a","b","a","s","e">>) \/ Contains(e, <<"v","e","c","t","o","r">>)
         THEN AgentError("DatabaseError", e)
    ELSE AgentError("ValidationError", e)

Apology == << "I'm sorry, I encountered an error processing your request." >>

\* the handler with the apology left out of the error answer
HandlerEvents_NoApology(res) ==
    IF res.ok
    THEN res.events
    ELSE << create_error_event(MapToAgentError(res.err)) >>

\* main.rs:45-72, the event list the handler passes to create_sse_stream
HandlerEvents(res) ==
    IF res.ok
    THEN res.events
    ELSE << create_error_event(MapToAgentError(res.err)),
            create_assistant_output_event(Apology) >>

----------------------------------------------------------------------------
(* Tool detection (agent.rs:109-136) and the tool registry.                *)

DocumentDir == <<"/","d","o","c","s">>

ToolInput(name, file_path) == [name |-> name, arguments |-> << << "file_path", file_path >> >>]

IsAbsolute(word) == Len(word) > 0 /\ word[1] = "/"

IsFileWord(word) ==
    /\ Contains(word, <<".">>)
    /\ (EndsWith(word, <<".","t","x","t">>) \/ EndsWith(word, <<".","r","s">>) \/ EndsWith(word, <<".","p","y">>))

RECURSIVE WordsToToolCalls(_)
WordsToToolCalls(words) ==
    IF words = << >> THEN << >>
    ELSE LET word == Head(words)
             file_path == IF IsAbsolute(word) THEN word
                          ELSE DocumentDir \o <<"/">> \o word
         IN  (IF IsFileWord(word)
              THEN << ToolInput("file_summarizer", file_path) >>
              ELSE << >>) \o WordsToToolCalls(Tail(words))

detect_tool_calls(content) ==
    IF Contains(content, <<"f","i","l","e",":">>) \/ Contains(content, <<".","t","x","t">>) \/ Contains(content, <<".","r","s">>)
    THEN WordsToToolCalls(SplitWhitespace(content))
    ELSE << >>

\* the registry AgentService::new builds (agent.rs:225-230)
RegisteredTools == { "file_summarizer" }

\* what reading the file can do (file_summarizer.rs:195-207)
ToolOutcomes == { "summary", "read_error" }

ToolOk(result)  == [ok |-> TRUE, result |-> result, error |-> << >>]
ToolErr(error)  == [ok |-> FALSE, result |-> << >>, error |-> error]

\* Display of ToolError (tool.rs:87-91)
ToolErrorDisplay(tool_name, message) ==
    << "Tool '", tool_name, "' error: " >> \o message

\* FileSummarizerTool::execute
file_summarizer_execute(input, outcome) ==
    IF input.name # "file_summarizer"
    THEN ToolErr(ToolErrorDisplay("file_summarizer", << "Expected tool" >>))
    ELSE IF outcome = "read_error"
         THEN ToolErr(ToolErrorDisplay("file_summarizer", << "File not found" >>))
         ELSE ToolOk(<< "File: " >> \o input.arguments[1][2] \o << " summary" >>)

\* ToolRegistry::execute_tool (registry.rs:61-71)
execute_tool(input, outcome) ==
    IF input.name \notin RegisteredTools
    THEN ToolErr(ToolErrorDisplay(input.name, << "not found in registry" >>))
    ELSE file_summarizer_execute(input, outcome)

----------------------------------------------------------------------------
(* Embedding, retrieval, conversation and generation collaborators.        *)

\* VectorStore::new (store.rs:15): the dimension the index is built with
embedding_dimensions == 1024

\* a vector is modelled by its length; a provider can answer with a vector,
\* with no vector at all, or with an error
EmbedOutcomes == { "vector_1024", "vector_512", "empty", "error" }

EmbedErrorText == << "Bedrock Cohere API error" >>

VectorLen(outcome) == IF outcome = "vector_1024" THEN 1024 ELSE 512

SearchResult(file_name, content) == [file_name |-> file_name, content |-> content]

\* what the similarity query can do once the dimension check has passed
SearchOutcomes == { "no_documents", "one_document", "query_error" }

ErrDimensionMismatch == <<"Q","u","e","r","y"," ","e","m","b","e","d","d","i","n","g"," ","d","i","m","e","n","s","i","o","n"," ","m","i","s","m","a","t","c","h",":"," ","e","x","p","e","c","t","e","d"," ","1","0","2","4",","," ","g","o","t"," ","5","1","2">>
ErrSimilaritySearch  == <<"F","a","i","l","e","d"," ","t","o"," ","e","x","e","c","u","t","e"," ","s","i","m","i","l","a","r","i","t","y"," ","s","e","a","r","c","h">>

SearchOk(results) == [ok |-> TRUE, results |-> results, err |-> << >>]
SearchErr(e)      == [ok |-> FALSE, results |-> << >>, err |-> e]

\* VectorStore::search_similar (store.rs:73-147)
search_similar(query_len, outcome) ==
    IF query_len # embedding_dimensions
    THEN SearchErr(ErrDimensionMismatch)
    ELSE CASE outcome = "no_documents" -> SearchOk(<< >>)
           [] outcome = "one_document" -> SearchOk(<< SearchResult(<< "faq.txt" >>, << "doc" >>) >>)
           [] outcome = "query_error"  -> SearchErr(ErrSimilaritySearch)

\* agent.rs:357-364, the wording of a retrieval failure
SearchErrorMessage(e) ==
    IF Contains(e, <<"e","m","b","e","d","d","i","n","g"," ","d","i","m","e","n","s","i","o","n","s">>)
    THEN << "Vector search failed due to embedding dimension mismatch. This usually means the database was created with different embedding dimensions than the current provider (Bedrock Cohere uses 1024). Please recreate the database or run initialization again. Details: " >> \o e
    ELSE << "I'm having trouble searching documents: " >> \o e

ChatMessage(role, content) == [role |-> role, content |-> content, name |-> "None"]

RECURSIVE ContextOf(_)
ContextOf(search_results) ==
    IF search_results = << >> THEN << >>
    ELSE << "From " >> \o Head(search_results).file_name \o << ": " >>
         \o Head(search_results).content \o << "\n\n" >>
         \o ContextOf(Tail(search_results))

RECURSIVE SessionToLlm(_)
\* the conversion that hands Tool messages to the model as user messages
SessionToLlm_KeepsTools(msgs) ==
    [i \in 1..Len(msgs) |->
        ChatMessage(IF msgs[i].role = "Assistant" THEN "assistant" ELSE "user",
                    msgs[i].content)]

\* agent.rs:565-578, the loop over the session messages
SessionToLlm(msgs) ==
    IF msgs = << >> THEN << >>
    ELSE LET message == Head(msgs)
         IN  (IF message.role = "Tool" THEN << >>
              ELSE << ChatMessage(IF message.role = "User" THEN "user" ELSE "assistant",
                                  message.content) >>)
             \o SessionToLlm(Tail(msgs))

\* AgentService::convert_to_llm_messages_static (agent.rs:541-581)
convert_to_llm_messages_static(msgs, search_results) ==
    (IF search_results # << >>
     THEN << ChatMessage("user",
                << "Context information from relevant documents:\n\n" >>
                \o ContextOf(search_results)
                \o << "Based on the above context, please answer the user's question." >>) >>
     ELSE << >>)
    \o SessionToLlm(msgs)

\* llm/src/models.rs:60-68 StreamEvent, plus the failed item Err(e) and the
\* end of the stream (stream.next() = None)
StreamItem(kind, text) == [kind |-> kind, text |-> text]

MessageStart  == StreamItem("MessageStart", << >>)
MessageStop   == StreamItem("MessageStop", << >>)
ErrorEvent    == StreamItem("Error", << "overloaded" >>)
StreamFailure == StreamItem("Err", << "Stream error: reset" >>)
EndOfStream   == StreamItem("None", << >>)
Delta(text)   == StreamItem("ContentBlockDelta", text)

DeltaTexts == { << "Hi" >>, << " there" >>, << >> }

\* items after which process_bedrock_stream keeps yielding
OpenItems == { MessageStart, ErrorEvent } \cup { Delta(d) : d \in DeltaTexts }

\* items after which the stream is over
ClosingItems == { MessageStop, StreamFailure, EndOfStream }

CallClaudeErrorText == << "Failed to send request to Bedrock: timeout" >>

----------------------------------------------------------------------------
(* The state of one request.                                               *)

VARIABLES
    session,         \* the messages stored under the session key in Redis
    session0,        \* the session when the request arrived
    pc,              \* where the request is
    messages,        \* the request's messages
    midx,            \* number of request messages appended so far
    user_message,    \* content of the located User message
    tool_calls,      \* the detected invocations
    tidx,            \* number of invocations processed so far
    events,          \* the local Vec<Event> of process_message
    query_embedding, \* length of the query vector
    search_results,  \* the retrieved documents
    llm_messages,    \* the conversation handed to call_claude
    delivered,       \* the items stream.next() has yielded so far
    full_response,   \* the accumulated text
    result,          \* what process_message returned
    response,        \* the event list the handler answers with
    calls            \* the collaborator calls made so far, in order

request_vars == << session, session0, pc, messages, midx, user_message, tool_calls, tidx,
           events, query_embedding, search_results, llm_messages, delivered,
           full_response, result, response, calls >>

\* The state of one retried remote operation: call_claude of the generation
\* client or embed of an embedding provider.
VARIABLES
    provider,        \* the operation that runs
    max_retries,     \* the max_retries of its configuration
    texts,           \* the input of embed
    attempt,         \* the loop counter
    last_error,      \* the Option holding the error of the last failed attempt
    embed_results,   \* the vectors Titan's embed has collected
    trace,           \* the remote calls and the sleeps so far, in order
    returned         \* what the operation returned, << >> while it runs

retry_vars == << provider, max_retries, texts, attempt, last_error, embed_results,
                 trace, returned >>

\* The detector applied to one text.
VARIABLES
    detector_input,  \* the content handed to detect_tool_calls
    detector_output  \* << the Vec it returned >>, << >> before the call

detect_vars == << detector_input, detector_output >>

\* A ToolRegistry and the last operation applied to it.
VARIABLES
    tools,           \* the HashMap of the registry: tool name -> tool
    tools_before,    \* the HashMap before the last operation
    last_call,       \* the last operation, its argument and what it returned
    tool_runs        \* the tools the last operation ran, in order

registry_vars == << tools, tools_before, last_call, tool_runs >>

\* One AgentError and the error_event made of it.
VARIABLES
    agent_error,     \* the error, << >> when there is none
    error_sse        \* << the event create_error_event returned >>

error_vars == << agent_error, error_sse >>

\* One call of TextChunker::chunk_text.
VARIABLES
    document_text,   \* the text being chunked
    chunk_config,    \* the ChunkConfig of the chunker
    chunks,          \* the chunks pushed so far, the result once chunk_pc = "returned"
    start_token_idx, \* where the next window starts
    chunk_pc         \* "idle", "call", "loop" or "returned"

chunk_vars == << document_text, chunk_config, chunks, start_token_idx, chunk_pc >>

\* The two session stores and the appends in flight.
VARIABLES
    memory_sessions, \* SessionStore.sessions: session id -> SessionData
    redis_keys,      \* what Redis holds: key -> its value and when it was set
    appending,       \* the appends to Redis between their read and their write
    session_log      \* the operations on the stores that are over, in order

session_vars == << memory_sessions, redis_keys, appending, session_log >>

\* The construction of the embedding provider and of the vector store.
VARIABLES
    embedding_cfg,     \* config.embedding: the provider name and its dimensions
    pgvector_url,      \* the scheme of the database URL of the configuration
    embeddings_client, \* << the provider create_embedding_provider returned >>
    vector_store,      \* << the store AgentService::new built, or its error >>
    dimension_check    \* << what the store answered to a vector of the provider >>

provider_vars == << embedding_cfg, pgvector_url, embeddings_client, vector_store,
                    dimension_check >>

\* the variables outside the request and outside each component
component_vars   == << retry_vars, detect_vars, registry_vars, error_vars, chunk_vars, session_vars, provider_vars >>
outside_retry    == << request_vars, detect_vars, registry_vars, error_vars, chunk_vars, session_vars, provider_vars >>
outside_detect   == << request_vars, retry_vars, registry_vars, error_vars, chunk_vars, session_vars, provider_vars >>
outside_registry == << request_vars, retry_vars, detect_vars, error_vars, chunk_vars, session_vars, provider_vars >>
outside_error    == << request_vars, retry_vars, detect_vars, registry_vars, chunk_vars, session_vars, provider_vars >>
outside_chunk    == << request_vars, retry_vars, detect_vars, registry_vars, error_vars, session_vars, provider_vars >>
outside_session  == << request_vars, retry_vars, detect_vars, registry_vars, error_vars, chunk_vars, provider_vars >>
outside_provider == << request_vars, retry_vars, detect_vars, registry_vars, error_vars, chunk_vars, session_vars >>

vars == << request_vars, component_vars >>

\* no retried operation runs
RetryIdle ==
    /\ provider = "none"
    /\ max_retries = 0
    /\ texts = << >>
    /\ attempt = 0
    /\ last_error = << >>
    /\ embed_results = << >>
    /\ trace = << >>
    /\ returned = << >>

\* the detector has no input
DetectIdle ==
    /\ detector_input = << >>
    /\ detector_output = << >>

NoCall == [op |-> "new", name |-> "", tool |-> << >>, ok |-> TRUE, returned |-> << >>]

\* ToolRegistry::new (registry.rs:12-16): no tool, no operation yet
RegistryIdle ==
    /\ tools = << >>
    /\ tools_before = << >>
    /\ last_call = NoCall
    /\ tool_runs = << >>

\* no error is being reported
ErrorIdle ==
    /\ agent_error = << >>
    /\ error_sse = << >>

\* no text is being chunked
ChunkIdle ==
    /\ document_text = << >>
    /\ chunk_config = << >>
    /\ chunks = << >>
    /\ start_token_idx = 0
    /\ chunk_pc = "idle"

\* SessionStore::new and an empty Redis: no session, no operation yet
SessionsIdle ==
    /\ memory_sessions = << >>
    /\ redis_keys = << >>
    /\ appending = << >>
    /\ session_log = << >>

\* no configuration read and nothing built
ProviderIdle ==
    /\ embedding_cfg = << >>
    /\ pgvector_url = "none"
    /\ embeddings_client = << >>
    /\ vector_store = << >>
    /\ dimension_check = << >>

\* one collaborator call: the operation, its argument, whether it returned Ok,
\* and what it answered where that matters
Call(op, arg, ok, detail) == [op |-> op, arg |-> arg, ok |-> ok, detail |-> detail]

Init ==
    /\ session \in PriorSessions
    /\ session0 = session
    /\ pc = "idle"
    /\ messages = << >>
    /\ midx = 0
    /\ user_message = << >>
    /\ tool_calls = << >>
    /\ tidx = 0
    /\ events = << >>
    /\ query_embedding = 0
    /\ search_results = << >>
    /\ llm_messages = << >>
    /\ delivered = << >>
    /\ full_response = << >>
    /\ result = NoResult
    /\ response = << >>
    /\ calls = << >>
    /\ RetryIdle
    /\ DetectIdle
    /\ RegistryIdle
    /\ ErrorIdle
    /\ ChunkIdle
    /\ SessionsIdle
    /\ ProviderIdle

\* process_message returns r
Return(r) ==
    /\ result' = r
    /\ pc' = "returned"

\* append that puts the new message in front of the stored ones
append_InFront(stored_messages, message) == << message >> \o stored_messages

\* append that starts from a new SessionData instead of the stored one
append_Overwrites(stored_messages, message) == << message >>

\* RedisSessionStore::append (session_store.rs:40-57) when Redis accepts it:
\* read the stored messages, push the new one, write them back
append(stored_messages, message) == Append(stored_messages, message)

\* main.rs:38-47: the handler receives the request and calls process_message
ReceiveRequest ==
    /\ pc = "idle"
    /\ \E req \in Requests : messages' = req
    /\ pc' = "persist"
    /\ UNCHANGED << session, session0, midx, user_message, tool_calls, tidx, events,
                    query_embedding, search_results, llm_messages, delivered,
                    full_response, result, response, calls >>
    /\ UNCHANGED component_vars

\* persist_input with the error of append dropped instead of returned
persist_input_IgnoresFailure(stored) == << >>

\* agent.rs:277-280: `append(..).await.context(..)?` -- the early return, if any
persist_input(stored) ==
    IF stored THEN << >> ELSE << Err(ErrAppendMessage) >>

\* agent.rs:276-281: one iteration of the loop that appends the new messages
AppendInput ==
    /\ pc = "persist"
    /\ midx < Len(messages)
    /\ \E stored \in BOOLEAN :
         LET message == messages[midx + 1]
             early == persist_input(stored)
         IN  /\ calls' = Append(calls, Call("append", message, stored, ""))
             /\ session' = IF stored THEN append(session, message) ELSE session
             /\ IF early = << >>
                THEN /\ midx' = midx + 1
                     /\ UNCHANGED << pc, result >>
                ELSE /\ Return(early[1])
                     /\ UNCHANGED midx
    /\ UNCHANGED << session0, messages, user_message, tool_calls, tidx, events,
                    query_embedding, search_results, llm_messages, delivered,
                    full_response, response >>
    /\ UNCHANGED component_vars

RECURSIVE LastUser(_)
\* the search run from the front: the first User message instead of the last
LastUser_First(msgs) ==
    LET users == { i \in DOMAIN msgs : msgs[i].role = "User" }
    IN  IF users = { } THEN << >>
        ELSE << msgs[CHOOSE i \in users : \A j \in users : i <= j] >>

\* agent.rs:283-287: messages.iter().rev().find(role = User); << >> when none
LastUser(msgs) ==
    IF msgs = << >> THEN << >>
    ELSE IF msgs[Len(msgs)].role = "User" THEN << msgs[Len(msgs)] >>
         ELSE LastUser(SubSeq(msgs, 1, Len(msgs) - 1))

\* agent.rs:283-292: locate the User message and detect the tool calls
LocateAndDetect ==
    /\ pc = "persist"
    /\ midx = Len(messages)
    /\ IF LastUser(messages) = << >>
       THEN /\ Return(Err(ErrNoUserMessage))
            /\ UNCHANGED << user_message, tool_calls >>
       ELSE /\ user_message' = LastUser(messages)[1].content
            /\ tool_calls' = detect_tool_calls(user_message')
            /\ pc' = "tools"
            /\ UNCHANGED result
    /\ UNCHANGED << session, session0, messages, midx, tidx, events, query_embedding,
                    search_results, llm_messages, delivered, full_response,
                    response, calls >>
    /\ UNCHANGED component_vars

\* tool_step with the error of execute_tool propagated by `?`
tool_step_AbortsOnToolError(tool_call, tool_result, stored, evs) ==
    IF tool_result.ok
    THEN IF stored
         THEN [events |-> Append(evs, create_tool_usage_event(tool_call.name,
                                          tool_call.arguments, 0, tool_result.result)),
               early |-> << >>]
         ELSE [events |-> evs, early |-> << Err(ErrAppendTool) >>]
    ELSE [events |-> evs, early |-> << Err(tool_result.error) >>]

\* tool_step with the tool_usage event put in front of the events
tool_step_EventInFront(tool_call, tool_result, stored, evs) ==
    IF tool_result.ok
    THEN IF stored
         THEN [events |-> << create_tool_usage_event(tool_call.name,
                                 tool_call.arguments, 0, tool_result.result) >> \o evs,
               early |-> << >>]
         ELSE [events |-> evs, early |-> << Err(ErrAppendTool) >>]
    ELSE [events |-> << create_tool_usage_event("unknown", << >>, 0,
                            << "Error: " >> \o tool_result.error) >> \o evs,
          early |-> << >>]

\* agent.rs:296-324: the body of the tool loop, given what execute_tool
\* answered and whether Redis stored the Tool message: the events afterwards
\* and the early return, if any
tool_step(tool_call, tool_result, stored, evs) ==
    IF tool_result.ok
    THEN IF stored
         THEN [events |-> Append(evs, create_tool_usage_event(tool_call.name,
                                          tool_call.arguments, 0, tool_result.result)),
               early |-> << >>]
         ELSE [events |-> evs, early |-> << Err(ErrAppendTool) >>]
    ELSE [events |-> Append(evs, create_tool_usage_event("unknown", << >>, 0,
                                     << "Error: " >> \o tool_result.error)),
          early |-> << >>]

\* agent.rs:295-325: one iteration of the tool loop (serializing the result,
\* a serde_json::Value, cannot fail)
ExecuteTool ==
    /\ pc = "tools"
    /\ tidx < Len(tool_calls)
    /\ \E outcome \in ToolOutcomes, stored \in BOOLEAN :
         LET tool_call == tool_calls[tidx + 1]
             tool_result == execute_tool(tool_call, outcome)
             tool_message == Message("Tool", tool_result.result, "tool_result")
             step == tool_step(tool_call, tool_result, stored, events)
         IN  /\ tool_result.ok \/ stored
             /\ calls' = Append(calls, Call("execute_tool", tool_call, tool_result.ok, outcome))
                         \o (IF tool_result.ok
                             THEN << Call("append", tool_message, stored, "") >>
                             ELSE << >>)
             /\ session' = IF tool_result.ok /\ stored
                           THEN append(session, tool_message) ELSE session
             /\ events' = step.events
             /\ IF step.early = << >>
                THEN /\ tidx' = tidx + 1
                     /\ UNCHANGED << pc, result >>
                ELSE /\ Return(step.early[1])
                     /\ UNCHANGED tidx
    /\ UNCHANGED << session0, messages, midx, user_message, tool_calls, query_embedding,
                    search_results, llm_messages, delivered, full_response, response >>
    /\ UNCHANGED component_vars

\* embed_step with an empty answer replaced by an empty vector
embed_step_EmptyFallsThrough(outcome, evs) ==
    CASE outcome = "error" ->
           LET after == Append(evs, create_assistant_output_event(
                   << "I'm having trouble processing your request due to an embedding error: " >>
                   \o EmbedErrorText))
           IN  [events |-> after, early |-> << Ok(after) >>, query |-> 0]
      [] outcome = "empty" ->
           [events |-> evs, early |-> << >>, query |-> 0]
      [] OTHER ->
           [events |-> evs, early |-> << >>, query |-> VectorLen(outcome)]

\* embed_step with the provider's error propagated by `?`
embed_step_PropagatesError(outcome, evs) ==
    CASE outcome = "error" ->
           [events |-> evs, early |-> << Err(EmbedErrorText) >>, query |-> 0]
      [] outcome = "empty" ->
           LET after == Append(evs, create_assistant_output_event(
                   << "I'm having trouble generating embeddings for your query." >>))
           IN  [events |-> after, early |-> << Ok(after) >>, query |-> 0]
      [] OTHER ->
           [events |-> evs, early |-> << >>, query |-> VectorLen(outcome)]

\* agent.rs:328-351: what process_message does with the answer of embed: the
\* events afterwards, the early return if any, the length of the query vector
embed_step(outcome, evs) ==
    CASE outcome = "error" ->
           LET after == Append(evs, create_assistant_output_event(
                   << "I'm having trouble processing your request due to an embedding error: " >>
                   \o EmbedErrorText))
           IN  [events |-> after, early |-> << Ok(after) >>, query |-> 0]
      [] outcome = "empty" ->
           LET after == Append(evs, create_assistant_output_event(
                   << "I'm having trouble generating embeddings for your query." >>))
           IN  [events |-> after, early |-> << Ok(after) >>, query |-> 0]
      [] OTHER ->
           [events |-> evs, early |-> << >>, query |-> VectorLen(outcome)]

\* agent.rs:328-351: embed the located User message
Embed ==
    /\ pc = "tools"
    /\ tidx = Len(tool_calls)
    /\ \E outcome \in EmbedOutcomes :
         LET step == embed_step(outcome, events) IN
         /\ calls' = Append(calls, Call("embed", << user_message >>, outcome # "error", outcome))
         /\ events' = step.events
         /\ query_embedding' = step.query
         /\ IF step.early = << >>
            THEN /\ pc' = "retrieve"
                 /\ UNCHANGED result
            ELSE Return(step.early[1])
    /\ UNCHANGED << session, session0, messages, midx, user_message, tool_calls, tidx,
                    search_results, llm_messages, delivered, full_response, response >>
    /\ UNCHANGED component_vars

\* agent.rs:354-369: retrieve the documents
Search ==
    /\ pc = "retrieve"
    /\ \E outcome \in SearchOutcomes :
         LET found == search_similar(query_embedding, outcome) IN
         /\ calls' = Append(calls, Call("search_similar", query_embedding, found.ok, outcome))
         /\ IF found.ok
            THEN /\ search_results' = found.results
                 /\ pc' = "build"
                 /\ UNCHANGED << events, result >>
            ELSE /\ events' = Append(events,
                        create_assistant_output_event(SearchErrorMessage(found.err)))
                 /\ Return(Ok(events'))
                 /\ UNCHANGED search_results
    /\ UNCHANGED << session, session0, messages, midx, user_message, tool_calls, tidx,
                    query_embedding, llm_messages, delivered, full_response, response >>
    /\ UNCHANGED component_vars

\* agent.rs:372-386: read the session and build the conversation
BuildConversation ==
    /\ pc = "build"
    /\ \E read \in BOOLEAN :
         /\ calls' = Append(calls, Call("get", << >>, read, ""))
         /\ IF read
            THEN /\ llm_messages' = convert_to_llm_messages_static(session, search_results)
                 /\ pc' = "generate"
                 /\ UNCHANGED result
            ELSE /\ Return(Err(ErrGetSession))
                 /\ UNCHANGED llm_messages
    /\ UNCHANGED << session, session0, messages, midx, user_message, tool_calls, tidx,
                    events, query_embedding, search_results, delivered, full_response,
                    response >>
    /\ UNCHANGED component_vars

\* agent.rs:389-394 and 436-441: open the generation stream
CallClaude ==
    /\ pc = "generate"
    /\ \E opened \in BOOLEAN :
         /\ calls' = Append(calls, Call("call_claude", llm_messages, opened, ""))
         /\ IF opened
            THEN /\ pc' = "drain"
                 /\ UNCHANGED << events, result >>
            ELSE /\ events' = Append(events, create_assistant_output_event(
                        << "I'm having trouble with the AI service: " >> \o CallClaudeErrorText))
                 /\ Return(Ok(events'))
    /\ UNCHANGED << session, session0, messages, midx, user_message, tool_calls, tidx,
                    query_embedding, search_results, llm_messages, delivered,
                    full_response, response >>
    /\ UNCHANGED component_vars

\* drain_item with a stream_end event pushed when the stream ends by itself
drain_item_EndIsStop(item, full, evs) ==
    CASE item.kind = "ContentBlockDelta" ->
           IF item.text # << >>
           THEN [full_response |-> full \o item.text,
                 events |-> Append(evs, create_streaming_content_event(item.text)),
                 stop |-> FALSE]
           ELSE [full_response |-> full, events |-> evs, stop |-> FALSE]
      [] item.kind \in { "MessageStop", "None" } ->
           [full_response |-> full, events |-> Append(evs, create_stream_end_event),
            stop |-> TRUE]
      [] item.kind = "Err" ->
           [full_response |-> full,
            events |-> Append(evs, create_assistant_output_event(
                           << "I'm having trouble with the AI service: " >> \o item.text)),
            stop |-> TRUE]
      [] OTHER ->
           [full_response |-> full, events |-> evs, stop |-> FALSE]

\* drain_item that emits the second and later texts without accumulating them
drain_item_KeepsFirstText(item, full, evs) ==
    CASE item.kind = "ContentBlockDelta" ->
           IF item.text # << >>
           THEN [full_response |-> IF full = << >> THEN item.text ELSE full,
                 events |-> Append(evs, create_streaming_content_event(item.text)),
                 stop |-> FALSE]
           ELSE [full_response |-> full, events |-> evs, stop |-> FALSE]
      [] item.kind = "MessageStop" ->
           [full_response |-> full, events |-> Append(evs, create_stream_end_event),
            stop |-> TRUE]
      [] item.kind = "Err" ->
           [full_response |-> full,
            events |-> Append(evs, create_assistant_output_event(
                           << "I'm having trouble with the AI service: " >> \o item.text)),
            stop |-> TRUE]
      [] item.kind = "None" ->
           [full_response |-> full, events |-> evs, stop |-> TRUE]
      [] OTHER ->
           [full_response |-> full, events |-> evs, stop |-> FALSE]

\* drain_item without the test for an empty text
drain_item_EmitsEmptyText(item, full, evs) ==
    CASE item.kind = "ContentBlockDelta" ->
           [full_response |-> full \o item.text,
            events |-> Append(evs, create_streaming_content_event(item.text)),
            stop |-> FALSE]
      [] item.kind = "MessageStop" ->
           [full_response |-> full, events |-> Append(evs, create_stream_end_event),
            stop |-> TRUE]
      [] item.kind = "Err" ->
           [full_response |-> full,
            events |-> Append(evs, create_assistant_output_event(
                           << "I'm having trouble with the AI service: " >> \o item.text)),
            stop |-> TRUE]
      [] item.kind = "None" ->
           [full_response |-> full, events |-> evs, stop |-> TRUE]
      [] OTHER ->
           [full_response |-> full, events |-> evs, stop |-> FALSE]

\* drain_item that takes the emitted content back when the stream fails
drain_item_ErrRetracts(item, full, evs) ==
    CASE item.kind = "ContentBlockDelta" ->
           IF item.text # << >>
           THEN [full_response |-> full \o item.text,
                 events |-> Append(evs, create_streaming_content_event(item.text)),
                 stop |-> FALSE]
           ELSE [full_response |-> full, events |-> evs, stop |-> FALSE]
      [] item.kind = "MessageStop" ->
           [full_response |-> full, events |-> Append(evs, create_stream_end_event),
            stop |-> TRUE]
      [] item.kind = "Err" ->
           [full_response |-> full,
            events |-> Append(SelectSeq(evs, LAMBDA e : e.event # "content_delta"),
                              create_assistant_output_event(
                           << "I'm having trouble with the AI service: " >> \o item.text)),
            stop |-> TRUE]
      [] item.kind = "None" ->
           [full_response |-> full, events |-> evs, stop |-> TRUE]
      [] OTHER ->
           [full_response |-> full, events |-> evs, stop |-> FALSE]

\* drain_item with the new text put in front of the accumulated text
drain_item_Prepends(item, full, evs) ==
    CASE item.kind = "ContentBlockDelta" ->
           IF item.text # << >>
           THEN [full_response |-> item.text \o full,
                 events |-> Append(evs, create_streaming_content_event(item.text)),
                 stop |-> FALSE]
           ELSE [full_response |-> full, events |-> evs, stop |-> FALSE]
      [] item.kind = "MessageStop" ->
           [full_response |-> full, events |-> Append(evs, create_stream_end_event),
            stop |-> TRUE]
      [] item.kind = "Err" ->
           [full_response |-> full,
            events |-> Append(evs, create_assistant_output_event(
                           << "I'm having trouble with the AI service: " >> \o item.text)),
            stop |-> TRUE]
      [] item.kind = "None" ->
           [full_response |-> full, events |-> evs, stop |-> TRUE]
      [] OTHER ->
           [full_response |-> full, events |-> evs, stop |-> FALSE]

\* drain_item with a stream_end event pushed after the explanation of a failed item
drain_item_ErrEndsStream(item, full, evs) ==
    CASE item.kind = "ContentBlockDelta" ->
           IF item.text # << >>
           THEN [full_response |-> full \o item.text,
                 events |-> Append(evs, create_streaming_content_event(item.text)),
                 stop |-> FALSE]
           ELSE [full_response |-> full, events |-> evs, stop |-> FALSE]
      [] item.kind = "MessageStop" ->
           [full_response |-> full, events |-> Append(evs, create_stream_end_event),
            stop |-> TRUE]
      [] item.kind = "Err" ->
           [full_response |-> full,
            events |-> evs \o << create_assistant_output_event(
                           << "I'm having trouble with the AI service: " >> \o item.text),
                                 create_stream_end_event >>,
            stop |-> TRUE]
      [] item.kind = "None" ->
           [full_response |-> full, events |-> evs, stop |-> TRUE]
      [] OTHER ->
           [full_response |-> full, events |-> evs, stop |-> FALSE]

\* agent.rs:397-420: the body of the draining loop for one stream item: the
\* accumulated text and the events afterwards, and whether the loop stops
drain_item(item, full, evs) ==
    CASE item.kind = "ContentBlockDelta" ->
           IF item.text # << >>
           THEN [full_response |-> full \o item.text,
                 events |-> Append(evs, create_streaming_content_event(item.text)),
                 stop |-> FALSE]
           ELSE [full_response |-> full, events |-> evs, stop |-> FALSE]
      [] item.kind = "MessageStop" ->
           [full_response |-> full, events |-> Append(evs, create_stream_end_event),
            stop |-> TRUE]
      [] item.kind = "Err" ->
           [full_response |-> full,
            events |-> Append(evs, create_assistant_output_event(
                           << "I'm having trouble with the AI service: " >> \o item.text)),
            stop |-> TRUE]
      [] item.kind = "None" ->
           [full_response |-> full, events |-> evs, stop |-> TRUE]
      [] OTHER ->
           [full_response |-> full, events |-> evs, stop |-> FALSE]

\* agent.rs:396-421: one iteration of the loop that drains the stream
StreamNext ==
    /\ pc = "drain"
    /\ \E item \in OpenItems \cup ClosingItems :
         LET step == drain_item(item, full_response, events) IN
         /\ item \in OpenItems => Len(delivered) < MaxStream
         /\ delivered' = Append(delivered, item)
         /\ full_response' = step.full_response
         /\ events' = step.events
         /\ pc' = IF step.stop THEN "store" ELSE "drain"
    /\ UNCHANGED << session, session0, messages, midx, user_message, tool_calls, tidx,
                    query_embedding, search_results, llm_messages, result, response,
                    calls >>
    /\ UNCHANGED component_vars

\* agent.rs:423-444: store the accumulated text and return the events
StoreResponse ==
    /\ pc = "store"
    /\ IF full_response # << >>
       THEN \E stored \in BOOLEAN :
              LET assistant_message == Message("Assistant", full_response, "None") IN
              /\ calls' = Append(calls, Call("append", assistant_message, stored, ""))
              /\ IF stored
                 THEN /\ session' = append(session, assistant_message)
                      /\ Return(Ok(events))
                 ELSE /\ Return(Err(ErrAppendAssistant))
                      /\ UNCHANGED session
       ELSE /\ Return(Ok(events))
            /\ UNCHANGED << session, calls >>
    /\ UNCHANGED << session0, messages, midx, user_message, tool_calls, tidx, events,
                    query_embedding, search_results, llm_messages, delivered,
                    full_response, response >>
    /\ UNCHANGED component_vars

\* main.rs:48-72: the handler turns the result into the SSE event list
Respond ==
    /\ pc = "returned"
    /\ response' = HandlerEvents(result)
    /\ pc' = "responded"
    /\ UNCHANGED << session, session0, messages, midx, user_message, tool_calls, tidx,
                    events, query_embedding, search_results, llm_messages, delivered,
                    full_response, result, calls >>
    /\ UNCHANGED component_vars

Next ==
    \/ ReceiveRequest
    \/ AppendInput
    \/ LocateAndDetect
    \/ ExecuteTool
    \/ Embed
    \/ Search
    \/ BuildConversation
    \/ CallClaude
    \/ StreamNext
    \/ StoreResponse
    \/ Respond

Spec == Init /\ [][Next]_vars

----------------------------------------------------------------------------
(* Retried remote operations: call_claude (llm/src/bedrock.rs) and embed   *)
(* of the embedding providers (embeddings/src).  One operation per         *)
(* behaviour, followed attempt by attempt.                                 *)

MaxRetries == 3
MaxTexts == 2

\* ModelConfig::default (llm/src/models.rs:50-51)
primary_model  == "anthropic.claude-3-5-sonnet-20241022-v2:0"
fallback_model == "anthropic.claude-3-5-sonnet-20240620-v1:0"

\* the default models of the embedding providers
CohereModel        == "embed-english-v3.0"
BedrockCohereModel == "cohere.embed-multilingual-v3"
BedrockTitanModel  == "amazon.titan-embed-text-v2:0"

Providers == { "call_claude", "cohere", "bedrock_cohere", "bedrock_titan", "fallback" }

\* what one remote call can answer: a success or one of two errors
RemoteErrors  == { "ThrottlingException", "timeout" }
RemoteAnswers == { "ok" } \cup RemoteErrors

\* the inputs of embed: up to MaxTexts texts
TextNames == { "t1", "t2" }
TextInputs == UNION { [1..n -> TextNames] : n \in 0..MaxTexts }

\* the entries of the trace
RemoteCall(model, input, answer) ==
    [kind |-> "call", model |-> model, input |-> input, answer |-> answer, ms |-> 0]
Sleep(ms) ==
    [kind |-> "sleep", model |-> "", input |-> << >>, answer |-> "", ms |-> ms]

\* Result<..> of the operation
RetOk(value) == [ok |-> TRUE, value |-> value, error |-> ""]
RetErr(e)    == [ok |-> FALSE, value |-> << >>, error |-> e]

\* what the remote side sends back on a success
StreamOf(model) == << "stream", model >>
VectorOf(model, text) == << "vector", model, text >>
VectorsOf(model, txts) == [i \in 1..Len(txts) |-> VectorOf(model, txts[i])]

\* one step of an operation: the new loop state, the entries added to the
\* trace and the return value if the operation returns
Step(att, last, res, added, ret) ==
    [attempt |-> att, last_error |-> last, embed_results |-> res, trace |-> added,
     returned |-> ret]

\* call_claude whose attempts after the first go to the primary model again
call_claude_step_RetriesPrimary(att, last, R, answer) ==
    IF answer = "ok"
    THEN Step(att, last, << >>, << RemoteCall(primary_model, << >>, answer) >>,
              << RetOk(StreamOf(primary_model)) >>)
    ELSE Step(att + 1, << answer >>, << >>,
              << RemoteCall(primary_model, << >>, answer) >>
                  \o (IF att + 1 <= R THEN << Sleep(1000 * 2^((att + 1) - 1)) >> ELSE << >>),
              IF att + 1 <= R THEN << >> ELSE << RetErr(answer) >>)

\* call_claude whose delay doubles from 2000 ms on
call_claude_step_LongerBackoff(att, last, R, answer) ==
    LET model == IF att = 0 THEN primary_model ELSE fallback_model IN
    IF answer = "ok"
    THEN Step(att, last, << >>, << RemoteCall(model, << >>, answer) >>,
              << RetOk(StreamOf(model)) >>)
    ELSE Step(att + 1, << answer >>, << >>,
              << RemoteCall(model, << >>, answer) >>
                  \o (IF att + 1 <= R THEN << Sleep(1000 * 2^(att + 1)) >> ELSE << >>),
              IF att + 1 <= R THEN << >> ELSE << RetErr(answer) >>)

\* bedrock.rs:51-72, one iteration of the loop of call_claude (entered with
\* attempt <= max_retries) and, when the loop ends with it, the final Err
call_claude_step(att, last, R, answer) ==
    LET model == IF att = 0 THEN primary_model ELSE fallback_model IN
    IF answer = "ok"
    THEN Step(att, last, << >>, << RemoteCall(model, << >>, answer) >>,
              << RetOk(StreamOf(model)) >>)
    ELSE Step(att + 1, << answer >>, << >>,
              << RemoteCall(model, << >>, answer) >>
                  \o (IF att + 1 <= R THEN << Sleep(1000 * 2^((att + 1) - 1)) >> ELSE << >>),
              IF att + 1 <= R THEN << >> ELSE << RetErr(answer) >>)

\* Cohere's embed without the early return on an empty input
cohere_embed_step_CallsOnEmpty(txts, att, last, R, answer) ==
    IF answer = "ok"
    THEN Step(att, last, << >>, << RemoteCall(CohereModel, txts, answer) >>,
              << RetOk(VectorsOf(CohereModel, txts)) >>)
    ELSE Step(att + 1, << answer >>, << >>,
              << RemoteCall(CohereModel, txts, answer) >>
                  \o (IF att < R THEN << Sleep(1000 * 2^att) >> ELSE << >>),
              IF att < R THEN << >> ELSE << RetErr(answer) >>)

\* Cohere's embed waiting 1000 ms after every failed attempt
cohere_embed_step_FixedDelay(txts, att, last, R, answer) ==
    IF txts = << >>
    THEN Step(att, last, << >>, << >>, << RetOk(<< >>) >>)
    ELSE IF answer = "ok"
    THEN Step(att, last, << >>, << RemoteCall(CohereModel, txts, answer) >>,
              << RetOk(VectorsOf(CohereModel, txts)) >>)
    ELSE Step(att + 1, << answer >>, << >>,
              << RemoteCall(CohereModel, txts, answer) >>
                  \o (IF att < R THEN << Sleep(1000) >> ELSE << >>),
              IF att < R THEN << >> ELSE << RetErr(answer) >>)

\* cohere.rs:54-75, CohereClient::embed: the early return on an empty input,
\* one iteration of `for attempt in 0..=max_retries` and, when the loop ends
\* with it, the final Err
cohere_embed_step(txts, att, last, R, answer) ==
    IF txts = << >>
    THEN Step(att, last, << >>, << >>, << RetOk(<< >>) >>)
    ELSE IF answer = "ok"
    THEN Step(att, last, << >>, << RemoteCall(CohereModel, txts, answer) >>,
              << RetOk(VectorsOf(CohereModel, txts)) >>)
    ELSE Step(att + 1, << answer >>, << >>,
              << RemoteCall(CohereModel, txts, answer) >>
                  \o (IF att < R THEN << Sleep(1000 * 2^att) >> ELSE << >>),
              IF att < R THEN << >> ELSE << RetErr(answer) >>)

\* bedrock_cohere.rs:133-163, BedrockCohereClient::embed, the same loop
bedrock_cohere_embed_step(txts, att, last, R, answer) ==
    IF txts = << >>
    THEN Step(att, last, << >>, << >>, << RetOk(<< >>) >>)
    ELSE IF answer = "ok"
    THEN Step(att, last, << >>, << RemoteCall(BedrockCohereModel, txts, answer) >>,
              << RetOk(VectorsOf(BedrockCohereModel, txts)) >>)
    ELSE Step(att + 1, << answer >>, << >>,
              << RemoteCall(BedrockCohereModel, txts, answer) >>
                  \o (IF att < R THEN << Sleep(1000 * 2^att) >> ELSE << >>),
              IF att < R THEN << >> ELSE << RetErr(answer) >>)

\* bedrock_titan.rs:66-94, BedrockTitanClient::embed: the early return on an
\* empty input and one iteration of `for text in texts`, embed_one included;
\* max_retries is not read
bedrock_titan_embed_step(txts, res, answer) ==
    IF txts = << >>
    THEN Step(0, << >>, res, << >>, << RetOk(<< >>) >>)
    ELSE LET text == txts[Len(res) + 1] IN
         IF answer = "ok"
         THEN LET pushed == Append(res, VectorOf(BedrockTitanModel, text)) IN
              Step(0, << >>, pushed, << RemoteCall(BedrockTitanModel, << text >>, answer) >>,
                   IF Len(pushed) = Len(txts) THEN << RetOk(pushed) >> ELSE << >>)
         ELSE Step(0, << >>, res, << RemoteCall(BedrockTitanModel, << text >>, answer) >>,
                   << RetErr(answer) >>)

\* the length in bytes of a text of TextNames
TextLen(text) == 2

\* fallback.rs:27-44: the vector of the text at index i (from 0), which is
\* made of (text.len() + i) % 100 and i
FallbackVector(text, i) == << "vector", "fallback", (TextLen(text) + i) % 100, i >>

\* fallback.rs:21-47, FallbackEmbeddingProvider::embed: no remote call
fallback_embed_step(txts) ==
    IF txts = << >>
    THEN Step(0, << >>, << >>, << >>, << RetOk(<< >>) >>)
    ELSE Step(0, << >>, << >>, << >>,
              << RetOk([i \in 1..Len(txts) |-> FallbackVector(txts[i], i - 1)]) >>)

\* the request of the server is not running
RequestIdle ==
    /\ session = << >>
    /\ session0 = << >>
    /\ pc = "idle"
    /\ messages = << >>
    /\ midx = 0
    /\ user_message = << >>
    /\ tool_calls = << >>
    /\ tidx = 0
    /\ events = << >>
    /\ query_embedding = 0
    /\ search_results = << >>
    /\ llm_messages = << >>
    /\ delivered = << >>
    /\ full_response = << >>
    /\ result = NoResult
    /\ response = << >>
    /\ calls = << >>

\* a client with max_retries in 0..MaxRetries is about to run its operation
InitRetry ==
    /\ RequestIdle
    /\ provider \in Providers
    /\ max_retries \in 0..MaxRetries
    /\ texts \in (IF provider = "call_claude" THEN { << >> } ELSE TextInputs)
    /\ attempt = 0
    /\ last_error = << >>
    /\ embed_results = << >>
    /\ trace = << >>
    /\ returned = << >>
    /\ DetectIdle
    /\ RegistryIdle
    /\ ErrorIdle
    /\ ChunkIdle
    /\ SessionsIdle
    /\ ProviderIdle

\* the operation moves by one step
Advance(step) ==
    /\ attempt' = step.attempt
    /\ last_error' = step.last_error
    /\ embed_results' = step.embed_results
    /\ trace' = trace \o step.trace
    /\ returned' = step.returned
    /\ UNCHANGED << provider, max_retries, texts >>
    /\ UNCHANGED outside_retry

\* BedrockClient::call_claude (bedrock.rs:44-73)
TryCallClaude ==
    /\ provider = "call_claude"
    /\ returned = << >>
    /\ \E answer \in RemoteAnswers :
         Advance(call_claude_step(attempt, last_error, max_retries, answer))

\* CohereClient::embed (cohere.rs:54-75)
CohereEmbed ==
    /\ provider = "cohere"
    /\ returned = << >>
    /\ \E answer \in RemoteAnswers :
         Advance(cohere_embed_step(texts, attempt, last_error, max_retries, answer))

\* BedrockCohereClient::embed (bedrock_cohere.rs:133-163)
BedrockCohereEmbed ==
    /\ provider = "bedrock_cohere"
    /\ returned = << >>
    /\ \E answer \in RemoteAnswers :
         Advance(bedrock_cohere_embed_step(texts, attempt, last_error, max_retries, answer))

\* BedrockTitanClient::embed (bedrock_titan.rs:66-77)
BedrockTitanEmbed ==
    /\ provider = "bedrock_titan"
    /\ returned = << >>
    /\ \E answer \in RemoteAnswers :
         Advance(bedrock_titan_embed_step(texts, embed_results, answer))

\* FallbackEmbeddingProvider::embed (fallback.rs:21-47)
FallbackEmbed ==
    /\ provider = "fallback"
    /\ returned = << >>
    /\ Advance(fallback_embed_step(texts))

NextRetry ==
    \/ TryCallClaude
    \/ CohereEmbed
    \/ BedrockCohereEmbed
    \/ BedrockTitanEmbed
    \/ FallbackEmbed

SpecRetry == InitRetry /\ [][NextRetry]_vars

----------------------------------------------------------------------------
(* The detector on its own: ToolCallDetector::detect_tool_calls            *)
(* (server/src/agent.rs:109-136) applied to one text.                      *)

MaxWords == 2

\* the tokens the texts are made of: names with and without the extensions
\* of the detector, relative and absolute
DetectTokens ==
    { <<"a",".","t","x","t">>, <<"b",".","r","s">>, <<"c",".","p","y">>, <<"/","x",".","p","y">>, <<"h","i">>, <<"f","i","l","e",":">>, <<"a",".","r","s","t">>, <<"t","x","t">> }

Separators == { << " " >>, << "\n", " " >> }

RECURSIVE JoinWords(_, _)
JoinWords(ws, sep) ==
    IF ws = << >> THEN << >>
    ELSE IF Len(ws) = 1 THEN ws[1]
    ELSE ws[1] \o sep \o JoinWords(Tail(ws), sep)

\* the message texts: up to MaxWords tokens with white space between them
DetectTexts ==
    { JoinWords(ws, sep) :
        ws \in UNION { [1..n -> DetectTokens] : n \in 0..MaxWords },
        sep \in Separators }

InitDetect ==
    /\ RequestIdle
    /\ RetryIdle
    /\ RegistryIdle
    /\ ErrorIdle
    /\ ChunkIdle
    /\ SessionsIdle
    /\ ProviderIdle
    /\ detector_input \in DetectTexts
    /\ detector_output = << >>

\* agent.rs:109-136: the call of detect_tool_calls
Detect ==
    /\ detector_output = << >>
    /\ detector_output' = << detect_tool_calls(detector_input) >>
    /\ UNCHANGED detector_input
    /\ UNCHANGED outside_detect

NextDetect == Detect

SpecDetect == InitDetect /\ [][NextDetect]_vars

----------------------------------------------------------------------------
(* The tool registry on its own (tooling/src/registry.rs).                 *)

\* tools are told apart by their name and by which object they are
ToolNames == { "file_summarizer", "test_tool", "other_tool" }
ToolObjects == { "tool1", "tool2" }
Tools == [name : ToolNames, object : ToolObjects]

\* HashMap::insert and HashMap::remove
Insert(map, key, value) ==
    [k \in DOMAIN map \cup { key } |-> IF k = key THEN value ELSE map[k]]
Remove(map, key) ==
    [k \in DOMAIN map \ { key } |-> map[k]]

\* register that stores every tool under the one key "test_tool"
register_UnderOneKey(registered, tool) ==
    IF "test_tool" \in DOMAIN registered
    THEN [tools |-> registered, ok |-> FALSE,
          error |-> << "Tool '", tool.name, "' is already registered" >>]
    ELSE [tools |-> Insert(registered, "test_tool", tool), ok |-> TRUE, error |-> << >>]

\* register without the check for the name
register_Replaces(registered, tool) ==
    [tools |-> Insert(registered, tool.name, tool), ok |-> TRUE, error |-> << >>]

\* ToolRegistry::register (registry.rs:19-28)
register(registered, tool) ==
    IF tool.name \in DOMAIN registered
    THEN [tools |-> registered, ok |-> FALSE,
          error |-> << "Tool '", tool.name, "' is already registered" >>]
    ELSE [tools |-> Insert(registered, tool.name, tool), ok |-> TRUE, error |-> << >>]

\* ToolRegistry::get_tool (registry.rs:30-32): the Option as a sequence
get_tool(registered, name) ==
    IF name \in DOMAIN registered THEN << registered[name] >> ELSE << >>

\* ToolRegistry::tool_count (registry.rs:73-75)
tool_count(registered) == Cardinality(DOMAIN registered)

\* ToolRegistry::is_registered (registry.rs:77-79)
is_registered(registered, name) == name \in DOMAIN registered

\* ToolRegistry::remove_tool (registry.rs:81-83)
remove_tool(registered, name) ==
    [tools |-> Remove(registered, name), removed |-> get_tool(registered, name)]

\* ToolError (tool.rs:70-85) and the Result of execute
ToolError(tool_name, message, recoverable) ==
    [tool_name |-> tool_name, message |-> message, recoverable |-> recoverable]
ExecOk(output) == [ok |-> TRUE, output |-> output, error |-> << >>]
ExecErr(error) == [ok |-> FALSE, output |-> << >>, error |-> << error >>]

\* what Tool::execute of a registered tool can answer (tool.rs:100): an
\* output, or an error of its own that is recoverable or not
ToolBehaviours == { "output", "recoverable_error", "unrecoverable_error" }

\* Tool::validate_input (tool.rs:103-112): the error, if any
validate_input(tool, input_name) ==
    IF input_name # tool.name
    THEN << ToolError(tool.name,
                << "Expected tool '", tool.name, "', got '", input_name, "'" >>, FALSE) >>
    ELSE << >>

\* execute of a tool begins with validate_input (file_summarizer.rs:196,
\* registry.rs:141)
tool_execute(tool, input_name, behaviour) ==
    CASE validate_input(tool, input_name) # << >> ->
           ExecErr(validate_input(tool, input_name)[1])
      [] behaviour = "output" ->
           ExecOk(<< "output of ", tool.object, " for ", input_name >>)
      [] behaviour = "recoverable_error" ->
           ExecErr(ToolError(tool.name, << "Simulated failure of ", tool.object >>, TRUE))
      [] behaviour = "unrecoverable_error" ->
           ExecErr(ToolError(tool.name, << "Simulated failure of ", tool.object >>, FALSE))

\* execute_tool whose error for a missing tool is marked recoverable
execute_registered_NotFoundRecoverable(registered, input_name, behaviour) ==
    IF get_tool(registered, input_name) = << >>
    THEN [runs |-> << >>,
          result |-> ExecErr(ToolError(input_name,
              << "Tool '", input_name, "' not found in registry" >>, TRUE))]
    ELSE [runs |-> << get_tool(registered, input_name)[1] >>,
          result |-> tool_execute(get_tool(registered, input_name)[1], input_name, behaviour)]

\* ToolRegistry::execute_tool (registry.rs:61-71) on a registry: the tools it
\* runs and what it returns
execute_registered(registered, input_name, behaviour) ==
    IF get_tool(registered, input_name) = << >>
    THEN [runs |-> << >>,
          result |-> ExecErr(ToolError(input_name,
              << "Tool '", input_name, "' not found in registry" >>, FALSE))]
    ELSE [runs |-> << get_tool(registered, input_name)[1] >>,
          result |-> tool_execute(get_tool(registered, input_name)[1], input_name, behaviour)]

InitRegistry ==
    /\ RequestIdle
    /\ RetryIdle
    /\ DetectIdle
    /\ RegistryIdle
    /\ ErrorIdle
    /\ ChunkIdle
    /\ SessionsIdle
    /\ ProviderIdle

Register ==
    /\ \E tool \in Tools :
         LET r == register(tools, tool) IN
         /\ tools' = r.tools
         /\ last_call' = [op |-> "register", name |-> tool.name, tool |-> << tool >>,
                          ok |-> r.ok, returned |-> r.error]
    /\ tools_before' = tools
    /\ tool_runs' = << >>
    /\ UNCHANGED outside_registry

RemoveTool ==
    /\ \E name \in ToolNames :
         LET r == remove_tool(tools, name) IN
         /\ tools' = r.tools
         /\ last_call' = [op |-> "remove_tool", name |-> name, tool |-> << >>,
                          ok |-> TRUE, returned |-> r.removed]
    /\ tools_before' = tools
    /\ tool_runs' = << >>
    /\ UNCHANGED outside_registry

GetTool ==
    /\ \E name \in ToolNames :
         last_call' = [op |-> "get_tool", name |-> name, tool |-> << >>,
                       ok |-> TRUE, returned |-> get_tool(tools, name)]
    /\ tools_before' = tools
    /\ tool_runs' = << >>
    /\ UNCHANGED tools
    /\ UNCHANGED outside_registry

\* ToolRegistry::execute_tool (registry.rs:61-71)
ExecuteRegistered ==
    /\ \E name \in ToolNames, behaviour \in ToolBehaviours :
         LET r == execute_registered(tools, name, behaviour) IN
         /\ tool_runs' = r.runs
         /\ last_call' = [op |-> "execute_tool", name |-> name, tool |-> << >>,
                          ok |-> r.result.ok, returned |-> << r.result, behaviour >>]
    /\ tools_before' = tools
    /\ UNCHANGED tools
    /\ UNCHANGED outside_registry

NextRegistry ==
    \/ Register
    \/ RemoveTool
    \/ GetTool
    \/ ExecuteRegistered

SpecRegistry == InitRegistry /\ [][NextRegistry]_vars

----------------------------------------------------------------------------
(* The error taxonomy on its own (server/src/errors.rs, sse.rs:63-71):     *)
(* one AgentError turned into an error_event.                              *)

\* the messages an AgentError can carry
ErrorMessages ==
    { << >>, << "test" >>, << "Cohere API failed" >>, << "File not found" >>,
      EmbedErrorText, ErrNoUserMessage, ErrAppendMessage, ErrGetSession }

InitErrors ==
    /\ RequestIdle
    /\ RetryIdle
    /\ DetectIdle
    /\ RegistryIdle
    /\ ChunkIdle
    /\ SessionsIdle
    /\ ProviderIdle
    /\ agent_error \in { AgentError(kind, msg) : kind \in AgentErrorKinds, msg \in ErrorMessages }
    /\ error_sse = << >>

\* sse.rs:63-71: create_error_event of the error
CreateErrorEvent ==
    /\ error_sse = << >>
    /\ error_sse' = << create_error_event(agent_error) >>
    /\ UNCHANGED agent_error
    /\ UNCHANGED outside_error

NextErrors == CreateErrorEvent

SpecErrors == InitErrors /\ [][NextErrors]_vars

-----------------------------------------------------------------------------
(* The chunker (embeddings/src/chunker.rs): one call of chunk_text, its    *)
(* loop taken one window at a time.                                        *)

MaxTokens == 4
MaxChunkSize == 3
\* the windows the model follows of a loop that never ends
MaxChunks == MaxTokens + 1

\* chunker.rs:3-8
TextChunk(content, start_pos, end_pos, chunk_id) ==
    [content |-> content, start_pos |-> start_pos, end_pos |-> end_pos,
     chunk_id |-> chunk_id]

\* chunker.rs:12-15
ChunkConfig(chunk_size, overlap_size) ==
    [chunk_size |-> chunk_size, overlap_size |-> overlap_size]

\* usize::saturating_sub
saturating_sub(a, b) == IF a >= b THEN a - b ELSE 0

\* chunker.rs:69-74: the lengths of the tokens, each with one separator
RECURSIVE SumTokenLens(_)
SumTokenLens(tokens) ==
    IF tokens = << >> THEN 0
    ELSE Len(Head(tokens)) + 1 + SumTokenLens(Tail(tokens))

\* chunker.rs:97: where the next window starts
next_start_token_idx_NoOverlap(end_token_idx, config) == end_token_idx

next_start_token_idx(end_token_idx, config) ==
    saturating_sub(end_token_idx, config.overlap_size)

\* chunker.rs:59-60: where the window that starts at start ends
window_end(start, config, total_tokens) ==
    IF start + config.chunk_size <= total_tokens
    THEN start + config.chunk_size ELSE total_tokens

\* chunker.rs:59-88: the chunk of the window that starts at token start
window_chunk(text, tokens, config, start, chunk_id) ==
    LET total_tokens  == Len(tokens)
        end_token_idx == window_end(start, config, total_tokens)
        chunk_tokens  == SubSeq(tokens, start + 1, end_token_idx)
        chunk_text    == JoinWords(chunk_tokens, << " " >>)
        start_pos     == IF start = 0 THEN 0
                         ELSE saturating_sub(SumTokenLens(SubSeq(tokens, 1, start)), 1)
        end_pos       == IF end_token_idx = total_tokens THEN Len(text)
                         ELSE start_pos + Len(chunk_text)
    IN  TextChunk(chunk_text, start_pos, end_pos, chunk_id)

\* the tokens of the texts, of two lengths
ChunkTokens == { <<"a">>, <<"b","b">> }

\* the texts: up to MaxTokens tokens with one or two spaces between them,
\* and a text of white space only
ChunkTexts ==
    { JoinWords(ws, sep) :
        ws \in UNION { [1..n -> ChunkTokens] : n \in 0..MaxTokens },
        sep \in { << " " >>, << " ", " " >> } }
    \cup { << " " >> }

InitChunk ==
    /\ RequestIdle
    /\ RetryIdle
    /\ DetectIdle
    /\ RegistryIdle
    /\ ErrorIdle
    /\ SessionsIdle
    /\ ProviderIdle
    /\ document_text \in ChunkTexts
    /\ chunk_config \in { ChunkConfig(c, o) : c \in 0..MaxChunkSize, o \in 0..MaxChunkSize }
    /\ chunks = << >>
    /\ start_token_idx = 0
    /\ chunk_pc = "call"

\* chunker.rs:37-56: the early returns of chunk_text and the start of its loop
ChunkTextBegin ==
    /\ chunk_pc = "call"
    /\ LET tokens == SplitWhitespace(document_text)
       IN  IF document_text = << >>
           THEN /\ chunks' = << >>
                /\ chunk_pc' = "returned"
           ELSE IF Len(tokens) <= chunk_config.chunk_size
           THEN /\ chunks' = << TextChunk(document_text, 0, Len(document_text), 0) >>
                /\ chunk_pc' = "returned"
           ELSE /\ chunks' = << >>
                /\ chunk_pc' = "loop"
    /\ start_token_idx' = 0
    /\ UNCHANGED << document_text, chunk_config >>
    /\ UNCHANGED outside_chunk

\* chunker.rs:58-100: one turn of the loop; chunk_id counts the chunks pushed
ChunkTextWindow ==
    /\ chunk_pc = "loop"
    /\ Len(chunks) < MaxChunks
    /\ LET tokens        == SplitWhitespace(document_text)
           total_tokens  == Len(tokens)
           end_token_idx == window_end(start_token_idx, chunk_config, total_tokens)
       IN  IF start_token_idx < total_tokens
           THEN /\ chunks' = Append(chunks,
                       window_chunk(document_text, tokens, chunk_config,
                                    start_token_idx, Len(chunks)))
                /\ IF end_token_idx >= total_tokens
                   THEN /\ chunk_pc' = "returned"
                        /\ UNCHANGED start_token_idx
                   ELSE /\ chunk_pc' = "loop"
                        /\ start_token_idx' = next_start_token_idx(end_token_idx, chunk_config)
           ELSE /\ chunk_pc' = "returned"
                /\ UNCHANGED << chunks, start_token_idx >>
    /\ UNCHANGED << document_text, chunk_config >>
    /\ UNCHANGED outside_chunk

NextChunk == ChunkTextBegin \/ ChunkTextWindow

SpecChunk == InitChunk /\ [][NextChunk]_vars

-----------------------------------------------------------------------------
(* The session stores: SessionStore (agentic-core/src/session.rs), kept in *)
(* memory, and RedisSessionStore (vector_store/src/session_store.rs),      *)
(* whose append reads the session, pushes the message and writes it back.  *)
(* Time is the number of operations that are over.                         *)

MaxSessionOps == 3

SessionIds == { "s1", "s2" }
Clients == { "r1", "r2" }

\* the messages the clients append
SessionMessages ==
    { UserMsg(<<"h","i">>), Message("Tool", << "summary" >>, "file_summarizer") }

session_now == Len(session_log) + 1

LogEntry(store, op, id, message, concurrent) ==
    [store |-> store, op |-> op, id |-> id, message |-> message,
     concurrent |-> concurrent]

\* session.rs:24-29, SessionStore::get
session_store_get(sessions, id) ==
    IF id \in DOMAIN sessions THEN sessions[id].messages ELSE << >>

\* session.rs:31-47, SessionStore::append
session_store_append(sessions, id, message, now) ==
    IF id \in DOMAIN sessions
    THEN Insert(sessions, id,
                [messages |-> Append(sessions[id].messages, message),
                 last_accessed |-> now])
    ELSE Insert(sessions, id, [messages |-> << message >>, last_accessed |-> now])

\* session.rs:49-53, SessionStore::gc
session_store_gc(sessions, now, ttl) ==
    [id \in { i \in DOMAIN sessions : now - sessions[i].last_accessed < ttl }
        |-> sessions[id]]

\* vector_store/src/models.rs:35-42, SessionData::new
SessionData_new(now) == [messages |-> << >>, created_at |-> now, last_accessed |-> now]

\* serde_json::to_string of a Message (models.rs:6-18 of vector_store): the variant name of
\* the role and the content between quotes, null for no name
message_to_json(message) ==
    [role    |-> << "\"", message.role, "\"" >>,
     content |-> << "\"" >> \o message.content \o << "\"" >>,
     name    |-> IF message.name = "None" THEN << "null" >>
                 ELSE << "\"", message.name, "\"" >>]

\* serde_json::from_str of a Message
message_from_json(json) ==
    [role    |-> json.role[2],
     content |-> SubSeq(json.content, 2, Len(json.content) - 1),
     name    |-> IF json.name = << "null" >> THEN "None" ELSE json.name[2]]

\* serde_json::to_string and from_str of a SessionData (models.rs:21-26 of vector_store)
session_to_json(data) ==
    [messages |-> [i \in 1..Len(data.messages) |-> message_to_json(data.messages[i])],
     created_at |-> data.created_at, last_accessed |-> data.last_accessed]

session_from_json(json) ==
    [messages |-> [i \in 1..Len(json.messages) |-> message_from_json(json.messages[i])],
     created_at |-> json.created_at, last_accessed |-> json.last_accessed]

\* session_store.rs:26, 42: format!("session:{}", session_id)
session_key(id) == << "session:", id >>

\* session_store.rs:24-38, RedisSessionStore::get when Redis answers
redis_get(keys, id) ==
    IF session_key(id) \in DOMAIN keys
    THEN session_from_json(keys[session_key(id)].value).messages
    ELSE << >>

\* session_store.rs:97-109, get_session_data
get_session_data(keys, key, now) ==
    IF key \in DOMAIN keys
    THEN [session_from_json(keys[key].value) EXCEPT !.last_accessed = now]
    ELSE SessionData_new(now)

\* the session an append writes back is the new message alone
pushed_session_data_Alone(keys, key, message, now) ==
    [SessionData_new(now) EXCEPT !.messages = << message >>]

\* session_store.rs:44-47: the session read, with the message pushed
pushed_session_data(keys, key, message, now) ==
    LET data == get_session_data(keys, key, now)
    IN  [data EXCEPT !.messages = Append(data.messages, message),
                     !.last_accessed = now]

\* session_store.rs:50-54: to_string and set_ex of the session
redis_set_ex(keys, key, data, now) ==
    Insert(keys, key, [value |-> session_to_json(data), set_at |-> now])

\* the stores after construction
InitSessions ==
    /\ RequestIdle
    /\ RetryIdle
    /\ DetectIdle
    /\ RegistryIdle
    /\ ErrorIdle
    /\ ChunkIdle
    /\ SessionsIdle
    /\ ProviderIdle

\* SessionStore::append (session.rs:31-47); &mut self keeps it to itself
MemoryAppend ==
    /\ Len(session_log) + Cardinality(DOMAIN appending) < MaxSessionOps
    /\ \E id \in SessionIds, message \in SessionMessages :
         /\ memory_sessions' =
                session_store_append(memory_sessions, id, message, session_now)
         /\ session_log' =
                Append(session_log, LogEntry("memory", "append", id, message, FALSE))
    /\ UNCHANGED << redis_keys, appending >>
    /\ UNCHANGED outside_session

\* SessionStore::gc (session.rs:49-53) with some ttl, when it drops a session
MemoryGc ==
    /\ Len(session_log) + Cardinality(DOMAIN appending) < MaxSessionOps
    /\ \E ttl \in 0..MaxSessionOps :
         /\ memory_sessions' = session_store_gc(memory_sessions, session_now, ttl)
         /\ memory_sessions' # memory_sessions
    /\ session_log' = Append(session_log, LogEntry("memory", "gc", "", << >>, FALSE))
    /\ UNCHANGED << redis_keys, appending >>
    /\ UNCHANGED outside_session

\* RedisSessionStore::append (session_store.rs:40-47): a client reads the
\* session and pushes its message; the appends in flight now overlap
RedisAppendRead ==
    /\ Len(session_log) + Cardinality(DOMAIN appending) < MaxSessionOps
    /\ \E c \in Clients \ DOMAIN appending, id \in SessionIds, message \in SessionMessages :
         appending' =
            Insert([d \in DOMAIN appending |-> [appending[d] EXCEPT !.concurrent = TRUE]],
                   c,
                   [id |-> id, message |-> message,
                    data |-> pushed_session_data(redis_keys, session_key(id), message,
                                                 session_now),
                    concurrent |-> appending # << >>])
    /\ UNCHANGED << memory_sessions, redis_keys, session_log >>
    /\ UNCHANGED outside_session

\* RedisSessionStore::append (session_store.rs:50-56): the client writes the
\* session back and its append returns Ok
RedisAppendWrite ==
    /\ \E c \in DOMAIN appending :
         /\ redis_keys' = redis_set_ex(redis_keys, session_key(appending[c].id),
                                       appending[c].data, session_now)
         /\ session_log' =
                Append(session_log,
                       LogEntry("redis", "append", appending[c].id, appending[c].message,
                                appending[c].concurrent))
         /\ appending' = Remove(appending, c)
    /\ UNCHANGED memory_sessions
    /\ UNCHANGED outside_session

\* RedisSessionStore::append (session_store.rs:53-54): set_ex fails and the
\* append returns Err
RedisAppendFails ==
    /\ \E c \in DOMAIN appending :
         /\ session_log' =
                Append(session_log,
                       LogEntry("redis", "append_failed", appending[c].id,
                                appending[c].message, appending[c].concurrent))
         /\ appending' = Remove(appending, c)
    /\ UNCHANGED << memory_sessions, redis_keys >>
    /\ UNCHANGED outside_session

\* the keys set ttl seconds ago or before expire (set_ex, session_store.rs:53)
RedisExpire ==
    /\ Len(session_log) + Cardinality(DOMAIN appending) < MaxSessionOps
    /\ \E t \in 1..Len(session_log) :
         /\ redis_keys' = [k \in { j \in DOMAIN redis_keys : redis_keys[j].set_at > t }
                             |-> redis_keys[k]]
         /\ redis_keys' # redis_keys
    /\ session_log' = Append(session_log, LogEntry("redis", "expire", "", << >>, FALSE))
    /\ UNCHANGED << memory_sessions, appending >>
    /\ UNCHANGED outside_session

\* RedisSessionStore::delete (session_store.rs:70-78)
RedisDelete ==
    /\ Len(session_log) + Cardinality(DOMAIN appending) < MaxSessionOps
    /\ \E id \in SessionIds :
         /\ session_key(id) \in DOMAIN redis_keys
         /\ redis_keys' = Remove(redis_keys, session_key(id))
         /\ session_log' = Append(session_log, LogEntry("redis", "delete", id, << >>, FALSE))
    /\ UNCHANGED << memory_sessions, appending >>
    /\ UNCHANGED outside_session

NextSessions ==
    \/ MemoryAppend
    \/ MemoryGc
    \/ RedisAppendRead
    \/ RedisAppendWrite
    \/ RedisAppendFails
    \/ RedisExpire
    \/ RedisDelete

SpecSessions == InitSessions /\ [][NextSessions]_vars

-----------------------------------------------------------------------------
(* The embedding provider and the vector store AgentService::new builds    *)

\* EmbeddingConfig (config.rs:4-9): the provider name and the optional
\* dimensions, << >> for None; model and aws_region do not bear on lengths
EmbeddingConfigs ==
    [provider   : { "cohere", "bedrock-cohere", "bedrock-titan", "unknown" },
     dimensions : { << >>, << 256 >>, << 512 >>, << 1024 >> }]

\* the schemes of pgvector.url AgentService::new tells apart (agent.rs:186-208)
DatabaseUrls == { "sqlite://", "postgresql://", "mysql://" }

\* create_embedding_provider (lib.rs:62-110) with dimension() of each
\* implementation (lib.rs:26-60): only the Titan arm reads cfg.dimensions and
\* it stores it as output_embedding_length (default Some(1024),
\* bedrock_titan.rs:24); dimension() is the literal 1024 for the three remote
\* providers and embedding_dim for the fallback, built with Cohere's 1024
create_embedding_provider(cfg) ==
    CASE cfg.provider = "cohere" ->
           [kind |-> "CohereClient", output_embedding_length |-> << >>,
            dimension |-> 1024]
      [] cfg.provider = "bedrock-cohere" ->
           [kind |-> "BedrockCohereClient", output_embedding_length |-> << >>,
            dimension |-> 1024]
      [] cfg.provider = "bedrock-titan" ->
           [kind |-> "BedrockTitanClient",
            output_embedding_length |->
                IF cfg.dimensions # << >> THEN cfg.dimensions ELSE << 1024 >>,
            dimension |-> 1024]
      [] OTHER ->
           [kind |-> "FallbackEmbeddingProvider", output_embedding_length |-> << >>,
            dimension |-> 1024]

\* the length of the vectors the provider is asked to produce: Titan sends
\* output_embedding_length as "dimensions" of the request
\* (bedrock_titan.rs:78-82), the fallback fills embedding_dim components
\* (fallback.rs:30), the Cohere requests name no length (cohere.rs:28-32,
\* bedrock_cohere.rs:28-31) and the v3 models answer with 1024
requested_length(client) ==
    IF client.output_embedding_length # << >>
    THEN client.output_embedding_length[1]
    ELSE client.dimension

\* AgentService::new, the vector store (agent.rs:186-208): in memory for
\* sqlite, VectorStore::new_with_dimensions(url, embeddings_client.dimension())
\* for postgresql, an error for another URL
new_vector_store(url, client) ==
    CASE url = "sqlite://" -> [ok |-> TRUE, kind |-> "InMemory", embedding_dimensions |-> 0]
      [] url = "postgresql://" ->
           [ok |-> TRUE, kind |-> "Real", embedding_dimensions |-> client.dimension]
      [] OTHER -> [ok |-> FALSE, kind |-> "Invalid database URL", embedding_dimensions |-> 0]

\* the dimension check of insert_document (store.rs:44-50) and of
\* search_similar (store.rs:84-90): Ok when the lengths agree
store_dimension_check(store, op, len) ==
    IF len # store.embedding_dimensions
    THEN [op |-> op, ok |-> FALSE, expected |-> store.embedding_dimensions, got |-> len]
    ELSE [op |-> op, ok |-> TRUE, expected |-> store.embedding_dimensions, got |-> len]

InitProvider ==
    /\ RequestIdle
    /\ RetryIdle
    /\ DetectIdle
    /\ RegistryIdle
    /\ ErrorIdle
    /\ ChunkIdle
    /\ SessionsIdle
    /\ embedding_cfg \in { << c >> : c \in EmbeddingConfigs }
    /\ pgvector_url \in DatabaseUrls
    /\ embeddings_client = << >>
    /\ vector_store = << >>
    /\ dimension_check = << >>

\* AgentService::new, `create_embedding_provider(&config.embedding)`
CreateEmbeddingProvider ==
    /\ embedding_cfg # << >>
    /\ embeddings_client = << >>
    /\ embeddings_client' = << create_embedding_provider(embedding_cfg[1]) >>
    /\ UNCHANGED << embedding_cfg, pgvector_url, vector_store, dimension_check >>
    /\ UNCHANGED outside_provider

\* AgentService::new, `let vector_store = if pg_cfg.url.starts_with(...)`
NewVectorStore ==
    /\ embeddings_client # << >>
    /\ vector_store = << >>
    /\ vector_store' = << new_vector_store(pgvector_url, embeddings_client[1]) >>
    /\ UNCHANGED << embedding_cfg, pgvector_url, embeddings_client, dimension_check >>
    /\ UNCHANGED outside_provider

\* a vector of the provider handed to insert_document or to search_similar of
\* the PostgreSQL store
CheckDimension ==
    /\ vector_store # << >>
    /\ vector_store[1].ok
    /\ vector_store[1].kind = "Real"
    /\ dimension_check = << >>
    /\ \E op \in { "insert_document", "search_similar" } :
         dimension_check' =
             << store_dimension_check(vector_store[1], op,
                                      requested_length(embeddings_client[1])) >>
    /\ UNCHANGED << embedding_cfg, pgvector_url, embeddings_client, vector_store >>
    /\ UNCHANGED outside_provider

NextProvider ==
    \/ CreateEmbeddingProvider
    \/ NewVectorStore
    \/ CheckDimension

SpecProvider == InitProvider /\ [][NextProvider]_vars

----------------------------------------------------------------------------
(* Vocabulary of the properties.                                           *)

\* the concatenation of a sequence of texts
RECURSIVE Concat(_)
Concat(ss) == IF ss = << >> THEN << >> ELSE Head(ss) \o Concat(Tail(ss))

IsPrefix(s, t) == Len(s) <= Len(t) /\ SubSeq(t, 1, Len(s)) = s

Finished == pc \in { "returned", "responded" }

CallsOf(op) == SelectSeq(calls, LAMBDA c : c.op = op)

EventsOf(evs, kind) == SelectSeq(evs, LAMBDA e : e.event = kind)

ArgsOf(cs) == [i \in 1..Len(cs) |-> cs[i].arg]

\* a call to the session store failed
SessionFailure ==
    \E i \in DOMAIN calls : calls[i].op \in { "append", "get" } /\ ~calls[i].ok

\* the messages Redis accepted during the request, in order
AppendedMessages == ArgsOf(SelectSeq(calls, LAMBDA c : c.op = "append" /\ c.ok))

\* the new messages were all stored and a User message was found among them
Located ==
    /\ pc \notin { "idle", "persist" }
    /\ midx = Len(messages)
    /\ LastUser(messages) # << >>

\* the append of a Tool message failed
ToolAppendFailed ==
    \E i \in DOMAIN calls :
        calls[i].op = "append" /\ ~calls[i].ok /\ calls[i].arg.role = "Tool"

\* the texts of the content deltas of a stream, and their concatenation
DeltaTextsOf(items) ==
    LET ds == SelectSeq(items, LAMBDA it : it.kind = "ContentBlockDelta" /\ it.text # << >>)
    IN  [i \in 1..Len(ds) |-> ds[i].text]

DeltaEventsOf(items) ==
    [i \in 1..Len(DeltaTextsOf(items)) |->
        [BlankEvent EXCEPT !.event = "content_delta", !.type = "delta",
                           !.content = DeltaTextsOf(items)[i]]]

EventKinds ==
    { "tool_usage", "assistant_output", "content_delta", "stream_start", "stream_end",
      "error_event" }

----------------------------------------------------------------------------
(* C1 -- process_message and the errors of its collaborators.              *)

\* a collaborator other than the session store failed in a way the claim lists
ExplainedFailure ==
    \/ \E i \in DOMAIN calls :
          /\ calls[i].op \in { "embed", "search_similar", "call_claude" }
          /\ (~calls[i].ok \/ calls[i].detail = "empty")
    \/ \E i \in DOMAIN delivered : delivered[i].kind = "Err"

\* C1 as stated: process_message never returns an error to its caller,
\* whatever fails.
C1_NeverReturnsError == Finished => result.ok

\* C1 amended: process_message returns an error exactly when a call to the
\* session store fails or the new messages hold no User message; a failure of
\* tool execution, embedding, retrieval or generation never makes it return
\* an error: each failed tool execution is one tool_usage event of the
\* returned sequence and the other failures are its final assistant_output.
C1_ErrorsOnlyFromSessionOrValidation ==
    Finished =>
        /\ ~result.ok <=> (SessionFailure \/ LastUser(messages) = << >>)
        /\ result.ok =>
             /\ Len(SelectSeq(result.events,
                        LAMBDA e : e.event = "tool_usage" /\ e.tool = "unknown"))
                = Len(SelectSeq(calls, LAMBDA c : c.op = "execute_tool" /\ ~c.ok))
             /\ ExplainedFailure =>
                  /\ result.events # << >>
                  /\ result.events[Len(result.events)].event = "assistant_output"

\* a tool execution and the embedding failed and the request still returned Ok
C1_Witness ==
    /\ Finished
    /\ result.ok
    /\ \E i \in DOMAIN calls : calls[i].op = "execute_tool" /\ ~calls[i].ok
    /\ \E i \in DOMAIN calls : calls[i].op = "embed" /\ ~calls[i].ok

----------------------------------------------------------------------------
(* C2 -- the handler always answers with an event list.                    *)

\* C2: whatever process_message returned, the handler has an answer (every
\* error text falls in one arm of its mapping) and answers with a list of SSE
\* events: the returned events when it returned Ok, and exactly
\* [error_event, apology assistant_output] when it returned an error.
C2_HandlerAlwaysAnswers ==
    /\ pc = "returned" =>
         (result.ok \/ MapToAgentError(result.err).kind \in AgentErrorKinds)
    /\ pc = "responded" =>
         /\ \A i \in DOMAIN response : response[i].event \in EventKinds
         /\ result.ok => response = result.events
         /\ ~result.ok =>
              /\ Len(response) = 2
              /\ response[1].event = "error_event"
              /\ response[1].error # << >>
              /\ response[2] = create_assistant_output_event(Apology)

\* the handler answered a request for which process_message returned an error
C2_Witness ==
    /\ pc = "responded"
    /\ ~result.ok
    /\ Len(response) = 2

----------------------------------------------------------------------------
(* C3 -- the end-to-end request without tools.                             *)

\* the stream delivered MessageStart, one or more non-empty deltas, MessageStop
PlainStream(items) ==
    /\ Len(items) >= 3
    /\ items[1] = MessageStart
    /\ items[Len(items)] = MessageStop
    /\ \A i \in 2..(Len(items) - 1) :
          items[i].kind = "ContentBlockDelta" /\ items[i].text # << >>

\* C3: when no tool invocation is detected, embedding and retrieval succeed
\* and the stream delivers MessageStart, non-empty deltas d1..dn, MessageStop
\* (and Redis stores what it is asked to store), the returned events are
\* content_delta(d1), ..., content_delta(dn), stream_end and the session is
\* what it was, then the request's messages, then one Assistant message
\* whose content is d1..dn concatenated.
C3_PlainRequest ==
    (/\ Finished
     /\ Located
     /\ tool_calls = << >>
     /\ PlainStream(delivered)
     /\ ~SessionFailure)
    => /\ result.ok
       /\ result.events = DeltaEventsOf(delivered) \o << create_stream_end_event >>
       /\ session = session0 \o messages
                    \o << AssistantMsg(Concat(DeltaTextsOf(delivered))) >>
       /\ pc = "responded" => response = result.events

\* the stream [MessageStart, "Hi", " there", MessageStop] was answered on a
\* session that already held messages
C3_Witness ==
    /\ pc = "responded"
    /\ session0 # << >>
    /\ tool_calls = << >>
    /\ delivered = << MessageStart, Delta(<< "Hi" >>), Delta(<< " there" >>), MessageStop >>
    /\ ~SessionFailure

----------------------------------------------------------------------------
(* C4 -- a stream that fails after producing text.                         *)

\* the stream delivered at least one non-empty delta and then a failed item
FailedAfterText(items) ==
    /\ items # << >>
    /\ items[Len(items)].kind = "Err"
    /\ DeltaTextsOf(items) # << >>

\* C4: when the stream delivers non-empty deltas and then fails, the request
\* asks Redis to append the accumulated text as an Assistant message; when
\* Redis stores it, that message is the last of the session, the returned
\* events end with the content_delta events followed by one explanatory
\* assistant_output, and no stream_end event is among them.
C4_PartialTextKept ==
    (Finished /\ FailedAfterText(delivered)) =>
        LET partial == AssistantMsg(Concat(DeltaTextsOf(delivered)))
            last == calls[Len(calls)]
            n == Len(DeltaEventsOf(delivered))
        IN  /\ last.op = "append" /\ last.arg = partial
            /\ last.ok =>
                 /\ session # << >> /\ session[Len(session)] = partial
                 /\ result.ok
                 /\ Len(result.events) >= n + 1
                 /\ SubSeq(result.events, Len(result.events) - n, Len(result.events) - 1)
                    = DeltaEventsOf(delivered)
                 /\ result.events[Len(result.events)].event = "assistant_output"
                 /\ EventsOf(result.events, "stream_end") = << >>
                 /\ Len(EventsOf(result.events, "assistant_output")) = 1

\* the stream ["Hi", " there", failure] was answered and the text stored
C4_Witness ==
    /\ pc = "responded"
    /\ delivered = << Delta(<< "Hi" >>), Delta(<< " there" >>), StreamFailure >>
    /\ result.ok
    /\ session[Len(session)] = AssistantMsg(<< "Hi", " there" >>)

----------------------------------------------------------------------------
(* C5 -- the tool phase.                                                   *)

\* the result a successful execution of an invocation carries
SummaryOf(tool_call) == execute_tool(tool_call, "summary").result

\* C5: the invocations are executed in detection order, each once; unless
\* Redis refuses a Tool message, the tool phase executes all of them and is
\* followed by the embedding call, each execution has its tool_usage event in
\* the same order (the invocation and its result on success, the error text
\* on failure), and the Tool messages of the session are those of the
\* successful executions, in order.
C5_ToolPhase ==
    LET execs == CallsOf("execute_tool")
        toolEvents == EventsOf(events, "tool_usage")
        succeeded == SelectSeq(execs, LAMBDA c : c.ok)
        stored == SelectSeq(AppendedMessages, LAMBDA msg : msg.role = "Tool")
    IN  /\ Len(execs) <= Len(tool_calls)
        /\ \A i \in DOMAIN execs : execs[i].arg = tool_calls[i]
        /\ (Located /\ pc # "tools" /\ ~ToolAppendFailed) =>
              /\ Len(execs) = Len(tool_calls)
              /\ CallsOf("embed") # << >>
        /\ ~ToolAppendFailed =>
              /\ Len(toolEvents) = Len(execs)
              /\ \A i \in DOMAIN execs :
                    IF execs[i].ok
                    THEN toolEvents[i] = create_tool_usage_event(tool_calls[i].name,
                                             tool_calls[i].arguments, 0,
                                             SummaryOf(tool_calls[i]))
                    ELSE /\ toolEvents[i].tool = "unknown"
                         /\ Len(toolEvents[i].result) > 1
                         /\ toolEvents[i].result[1] = "Error: "
              /\ stored = [i \in 1..Len(succeeded) |->
                              Message("Tool", SummaryOf(succeeded[i].arg), "tool_result")]
              /\ IsPrefix(session0 \o messages \o stored, session) \/ ~Located

\* the first execution failed, the second succeeded and embedding was called
C5_Witness ==
    /\ Len(tool_calls) = 2
    /\ Len(CallsOf("execute_tool")) = 2
    /\ ~CallsOf("execute_tool")[1].ok
    /\ CallsOf("execute_tool")[2].ok
    /\ CallsOf("embed") # << >>
    /\ Len(EventsOf(events, "tool_usage")) = 2

----------------------------------------------------------------------------
(* C6 -- a failed embedding ends the request.                              *)

\* the embedding call failed or answered with no vector
EmbeddingFailed ==
    \E i \in DOMAIN calls :
        calls[i].op = "embed" /\ (~calls[i].ok \/ calls[i].detail = "empty")

\* C6: when embedding fails or yields no vector, the request completes with
\* the events emitted so far followed by exactly one assistant_output; the
\* embedding call is the last collaborator call (no retrieval, no generation,
\* no append of an Assistant message).
C6_EmbeddingFailureEndsRequest ==
    EmbeddingFailed =>
        LET toolEvents == EventsOf(events, "tool_usage") IN
        /\ Finished
        /\ result.ok
        /\ calls[Len(calls)].op = "embed"
        /\ Len(toolEvents) = Len(CallsOf("execute_tool"))
        /\ Len(result.events) = Len(toolEvents) + 1
        /\ SubSeq(result.events, 1, Len(toolEvents)) = toolEvents
        /\ result.events[Len(result.events)].event = "assistant_output"
        /\ session = session0 \o AppendedMessages
        /\ \A i \in DOMAIN AppendedMessages :
              i > Len(messages) => AppendedMessages[i].role = "Tool"

\* embedding answered with no vector after a tool_usage event was emitted
C6_Witness ==
    /\ pc = "responded"
    /\ calls # << >>
    /\ calls[Len(calls)].op = "embed"
    /\ calls[Len(calls)].detail = "empty"
    /\ Len(response) = 3

----------------------------------------------------------------------------
(* C7 -- events emitted before a failure.                                  *)

\* C7 as stated: the events emitted before a failing step are still in the
\* event sequence delivered to the client, in order, followed by the event
\* that explains the failure.
C7_EarlierEventsDelivered ==
    pc = "responded" =>
        /\ IsPrefix(events, response)
        /\ ~result.ok =>
             /\ Len(response) > Len(events)
             /\ response[Len(events) + 1].event = "error_event"

----------------------------------------------------------------------------
(* C8 -- no rollback of the session.                                       *)

\* the request ended in a validation, embedding, retrieval or generation failure
FailedRequest ==
    /\ Finished
    /\ \/ ~result.ok
       \/ ExplainedFailure

\* C8: the session is always what it was when the request arrived followed by
\* the messages Redis accepted during the request, in the order of their
\* appends; in particular this is so after a request that failed.
C8_SessionKept ==
    /\ session = session0 \o AppendedMessages
    /\ FailedRequest => IsPrefix(session0 \o SubSeq(messages, 1, midx), session)

\* a request whose retrieval failed after its message and a Tool message were stored
C8_Witness ==
    /\ Finished
    /\ result.ok
    /\ session0 # << >>
    /\ \E i \in DOMAIN calls : calls[i].op = "search_similar" /\ ~calls[i].ok
    /\ Len(session) = Len(session0) + Len(messages) + 1
    /\ session[Len(session)].role = "Tool"

----------------------------------------------------------------------------
(* C9 -- a failed append of a new message aborts the request.              *)

\* C9: when Redis refuses one of the new messages, that append is the last
\* collaborator call of the request: the messages after it are not appended
\* and no tool, embedding, retrieval, session read or generation call is
\* made; process_message returns an error.
C9_FailedPersistAborts ==
    \A i \in DOMAIN calls :
        (i <= Len(messages) /\ calls[i].op = "append" /\ ~calls[i].ok) =>
            /\ Len(calls) = i
            /\ Finished
            /\ ~result.ok
            /\ session = session0 \o SubSeq(messages, 1, i - 1)
            /\ events = << >>

\* the first of two new messages was stored and the second was refused
C9_Witness ==
    /\ Finished
    /\ Len(messages) = 2
    /\ Len(calls) = 2
    /\ calls[1].ok
    /\ ~calls[2].ok
    /\ session = session0 \o << messages[1] >>

----------------------------------------------------------------------------
(* C10 -- the error kind of a failed append of a new message.              *)

\* C10 as stated: a failed append of a new message reaches the client as an
\* error_event of kind Session, with http_status 422 and retryable false.
C10_SessionErrorSurfaced ==
    (pc = "responded" /\ ~result.ok /\ result.err = ErrAppendMessage) =>
        /\ response[1].event = "error_event"
        /\ response[1].error = AgentErrorDisplay(AgentError("SessionError", result.err))
        /\ response[1].http_status = 422
        /\ response[1].retryable = FALSE

----------------------------------------------------------------------------
(* C11 -- which message drives detection and embedding.                    *)

\* the position of the last User message among the request's messages, 0 when
\* the request has none
LastUserIndex ==
    LET users == { i \in DOMAIN messages : messages[i].role = "User" }
    IN  IF users = { } THEN 0 ELSE CHOOSE i \in users : \A j \in users : j <= i

\* the calls of the tool, embedding, retrieval and generation phases
PipelineCalls ==
    SelectSeq(calls, LAMBDA c :
        c.op \in { "execute_tool", "embed", "search_similar", "call_claude" })

\* C11: the message handed to detection and to embed is the last User message
\* of the request's messages, whatever the stored session holds; a request
\* without a User message makes none of the tool, embedding, retrieval and
\* generation calls and is answered with a Validation error_event (400, not
\* retryable), even when the stored session already has User messages.
C11_LastNewUserMessage ==
    /\ (pc \notin { "idle", "persist" } /\ midx = Len(messages) /\ LastUserIndex # 0) =>
          /\ user_message = messages[LastUserIndex].content
          /\ tool_calls = detect_tool_calls(messages[LastUserIndex].content)
          /\ \A i \in DOMAIN calls :
                /\ calls[i].op = "embed" =>
                      calls[i].arg = << messages[LastUserIndex].content >>
                /\ calls[i].op = "execute_tool" =>
                      \E k \in DOMAIN tool_calls : calls[i].arg = tool_calls[k]
    /\ LastUserIndex = 0 => PipelineCalls = << >>
    /\ (pc = "responded" /\ LastUserIndex = 0) =>
          /\ ~result.ok
          /\ midx = Len(messages) => result.err = ErrNoUserMessage
          /\ response[1] = create_error_event(AgentError("ValidationError", result.err))
          /\ response[1].event = "error_event"
          /\ response[1].http_status = 400
          /\ response[1].retryable = FALSE

\* a request of one Assistant message, arriving at a session that already holds
\* a User message, has been answered
C11_Witness ==
    /\ pc = "responded"
    /\ messages # << >>
    /\ LastUserIndex = 0
    /\ midx = Len(messages)
    /\ \E i \in DOMAIN session0 : session0[i].role = "User"
    /\ result.err = ErrNoUserMessage
    /\ response[1].http_status = 400

----------------------------------------------------------------------------
(* C12, C13 -- a query vector of the wrong length.                         *)

\* the retrieval call failed on the length of the query vector
DimensionMismatch ==
    \E i \in DOMAIN calls :
        /\ calls[i].op = "search_similar"
        /\ ~calls[i].ok
        /\ calls[i].arg # embedding_dimensions

\* the retrieval call failed on something else
OtherSearchFailure ==
    \E i \in DOMAIN calls :
        /\ calls[i].op = "search_similar"
        /\ ~calls[i].ok
        /\ calls[i].arg = embedding_dimensions

\* the opening of the text of the last event process_message pushed
LastWording == events[Len(events)].content[1]

\* C12 as stated: a retrieval that fails on the length of the query vector is
\* explained with the dimension-mismatch wording, any other retrieval failure
\* with the generic wording, and neither is followed by a generation call.
C12_DimensionMismatchWording ==
    /\ DimensionMismatch =>
          /\ events[Len(events)].event = "assistant_output"
          /\ LastWording # "I'm having trouble searching documents: "
          /\ CallsOf("call_claude") = << >>
    /\ OtherSearchFailure =>
          /\ events[Len(events)].event = "assistant_output"
          /\ LastWording = "I'm having trouble searching documents: "
          /\ CallsOf("call_claude") = << >>

\* C13 as stated: a retrieval that fails on the length of the query vector is
\* answered with an error_event of kind VectorStore, http_status 500 and
\* retryable true.
C13_DimensionMismatchIsVectorStoreError ==
    (pc = "responded" /\ DimensionMismatch) =>
        \E i \in DOMAIN response :
            /\ response[i].event = "error_event"
            /\ response[i].http_status = 500
            /\ response[i].retryable = TRUE
            /\ response[i].error =
                  AgentErrorDisplay(AgentError("VectorStoreError", ErrDimensionMismatch))

----------------------------------------------------------------------------
(* C14 -- how a response ends.                                             *)

\* C14 as stated: the answered event list ends with stream_end, or with an
\* error_event followed by the apology.
C14_ResponseEnding ==
    pc = "responded" =>
        \/ /\ response # << >>
           /\ response[Len(response)].event = "stream_end"
        \/ /\ Len(response) >= 2
           /\ response[Len(response) - 1].event = "error_event"
           /\ response[Len(response)] = create_assistant_output_event(Apology)

----------------------------------------------------------------------------
(* C15, C16 -- the attempts of call_claude.                                *)

\* the remote calls of the trace, in order
RemoteCalls == SelectSeq(trace, LAMBDA t : t.kind = "call")

\* the number of remote calls made before position p of the trace, which is
\* the attempt number of a call at position p
CallsBefore(p) == Cardinality({ q \in 1..(p - 1) : trace[q].kind = "call" })

\* C15: call_claude makes its attempts one after another while each fails,
\* at most max_retries + 1 of them; attempt 0 goes to the primary model and
\* every later attempt to the fallback model, so the primary model is called
\* at most once and, with max_retries = 0, the fallback model never; the
\* first success ends the attempts and its stream is what is returned.
C15_PrimaryThenFallback ==
    provider = "call_claude" =>
        LET cs == RemoteCalls IN
        /\ Len(cs) <= max_retries + 1
        /\ \A i \in DOMAIN cs :
              /\ cs[i].model = IF i = 1 THEN primary_model ELSE fallback_model
              /\ i < Len(cs) => cs[i].answer # "ok"
        /\ Cardinality({ i \in DOMAIN cs : cs[i].model = primary_model }) <= 1
        /\ max_retries = 0 => \A i \in DOMAIN cs : cs[i].model # fallback_model
        /\ (cs # << >> /\ cs[Len(cs)].answer = "ok") =>
              /\ trace[Len(trace)] = cs[Len(cs)]
              /\ returned = << RetOk(StreamOf(cs[Len(cs)].model)) >>
        /\ (cs # << >> /\ cs[Len(cs)].answer # "ok" /\ Len(cs) <= max_retries) =>
              returned = << >>
        /\ (returned # << >> /\ ~returned[1].ok) => Len(cs) = max_retries + 1

\* with max_retries = 2 the primary model and the fallback model failed once
\* each and the second call of the fallback model returned a stream
C15_Witness ==
    /\ provider = "call_claude"
    /\ max_retries = 2
    /\ Len(RemoteCalls) = 3
    /\ returned = << RetOk(StreamOf(fallback_model)) >>

\* C16: when every attempt of call_claude fails, max_retries + 1 attempts are
\* made, the sleep before attempt N (N = 1..max_retries) is 1000 * 2^(N-1) ms,
\* nothing follows the last attempt, and the error returned is the error of
\* the last attempt.
C16_ExhaustedCallClaude ==
    (provider = "call_claude" /\ returned # << >> /\ ~returned[1].ok) =>
        /\ Len(RemoteCalls) = max_retries + 1
        /\ Len(trace) = 2 * max_retries + 1
        /\ trace[1].kind = "call"
        /\ \A N \in 1..max_retries :
              /\ trace[2 * N] = Sleep(1000 * 2^(N - 1))
              /\ trace[2 * N + 1].kind = "call"
        /\ \A p \in DOMAIN trace : trace[p].kind = "call" => trace[p].answer # "ok"
        /\ returned = << RetErr(trace[Len(trace)].answer) >>

\* with max_retries = 3 all four attempts failed, the first and the last with
\* different errors
C16_Witness ==
    /\ provider = "call_claude"
    /\ max_retries = 3
    /\ returned # << >>
    /\ ~returned[1].ok
    /\ Len(trace) = 7
    /\ trace[1].answer # trace[7].answer

----------------------------------------------------------------------------
(* C17, C18 -- the attempts of the embedding providers.                    *)

ModelOf(p) ==
    CASE p = "cohere" -> CohereModel
      [] p = "bedrock_cohere" -> BedrockCohereModel
      [] p = "bedrock_titan" -> BedrockTitanModel

\* C17: Cohere's and Bedrock Cohere's embed on a non-empty input send every
\* attempt, numbered from 0, to the same model with the same texts; a failed
\* attempt k < max_retries is followed by a sleep of 1000 * 2^k ms, a failed
\* attempt max_retries by no sleep and by the return of its error; a
\* successful attempt is the last one and its vectors are returned.
C17_EmbedRetry ==
    (provider \in { "cohere", "bedrock_cohere" } /\ texts # << >>) =>
        /\ \A p \in DOMAIN trace :
              /\ trace[p].kind = "call" =>
                    LET k == CallsBefore(p) IN
                    /\ k <= max_retries
                    /\ trace[p].model = ModelOf(provider)
                    /\ trace[p].input = texts
                    /\ IF trace[p].answer = "ok"
                       THEN /\ p = Len(trace)
                            /\ returned = << RetOk(VectorsOf(ModelOf(provider), texts)) >>
                       ELSE IF k < max_retries
                       THEN /\ p < Len(trace)
                            /\ trace[p + 1] = Sleep(1000 * 2^k)
                            /\ p + 1 = Len(trace) => returned = << >>
                       ELSE /\ p = Len(trace)
                            /\ returned = << RetErr(trace[p].answer) >>
              /\ trace[p].kind = "sleep" => (p > 1 /\ trace[p - 1].kind = "call")
        /\ returned # << >> => trace # << >>

\* Bedrock Cohere's embed with max_retries = 2 failed three times, the first
\* and the last time with different errors
C17_Witness ==
    /\ provider = "bedrock_cohere"
    /\ max_retries = 2
    /\ texts # << >>
    /\ returned # << >>
    /\ ~returned[1].ok
    /\ Len(trace) = 5
    /\ trace[1].answer # trace[5].answer

\* C18 as stated: every remote embedding provider returns an error only after
\* max_retries + 1 failed remote calls with max_retries sleeps between them.
C18_UniformRetryPolicy ==
    (/\ provider \in { "cohere", "bedrock_cohere", "bedrock_titan" }
     /\ returned # << >>
     /\ ~returned[1].ok) =>
        /\ Cardinality({ p \in DOMAIN trace :
               trace[p].kind = "call" /\ trace[p].answer # "ok" }) = max_retries + 1
        /\ Cardinality({ p \in DOMAIN trace : trace[p].kind = "sleep" }) = max_retries

----------------------------------------------------------------------------
(* C19 -- what detect_tool_calls returns.                                  *)

\* the tokens of a text that contain a dot and end with one of the extensions
FileTokens(content) ==
    SelectSeq(SplitWhitespace(content), LAMBDA token :
        /\ Contains(token, <<".">>)
        /\ \/ EndsWith(token, <<".","t","x","t">>)
           \/ EndsWith(token, <<".","r","s">>)
           \/ EndsWith(token, <<".","p","y">>))

\* the invocation the claim expects for a token
InvocationFor(token) ==
    [name |-> "file_summarizer",
     arguments |-> << << "file_path",
                         IF token[1] = "/" THEN token ELSE DocumentDir \o <<"/">> \o token >> >>]

\* C19 as stated: for every text detect_tool_calls returns one file_summarizer
\* invocation per token that contains a dot and ends with .txt, .rs or .py,
\* in token order, duplicates kept, with the token itself as file_path when
\* it is absolute and base_dir/token otherwise, and nothing else.
C19_OneInvocationPerFileToken ==
    detector_output # << >> =>
        detector_output[1] =
            [i \in 1..Len(FileTokens(detector_input)) |->
                InvocationFor(FileTokens(detector_input)[i])]

----------------------------------------------------------------------------
(* C20 -- registering a name twice.                                        *)

\* C20: whatever was registered and removed before, register fails exactly
\* when a tool of the same name is in the registry, and a failed register
\* changes nothing: the count is the same and get_tool of the name still
\* returns the tool registered first.
C20_DuplicateRegisterRejected ==
    last_call.op = "register" =>
        /\ ~last_call.ok <=> last_call.name \in DOMAIN tools_before
        /\ ~last_call.ok =>
              /\ tools = tools_before
              /\ tool_count(tools) = tool_count(tools_before)
              /\ get_tool(tools, last_call.name) = << tools_before[last_call.name] >>

\* a second tool object with the name of a registered tool was refused while
\* two tools were registered
C20_Witness ==
    /\ last_call.op = "register"
    /\ ~last_call.ok
    /\ tool_count(tools) = 2
    /\ last_call.tool[1] # tools_before[last_call.name]
    /\ get_tool(tools, last_call.name) = << tools_before[last_call.name] >>

----------------------------------------------------------------------------
(* C21 -- execute_tool of the registry.                                    *)

\* C21: execute_tool for a name that is not registered runs no tool and
\* fails with a ToolError that names the requested tool and is not
\* recoverable; for a registered name it runs the tool registered under that
\* name once, and returns what that tool answered, its output or its error
\* with the tool's own recoverable flag.
C21_ExecuteDelegates ==
    last_call.op = "execute_tool" =>
        LET answer == last_call.returned[1]
            behaviour == last_call.returned[2]
        IN  IF last_call.name \notin DOMAIN tools_before
            THEN /\ tool_runs = << >>
                 /\ ~answer.ok
                 /\ answer.error[1].tool_name = last_call.name
                 /\ answer.error[1].recoverable = FALSE
            ELSE /\ tool_runs = << tools_before[last_call.name] >>
                 /\ behaviour = "output" =>
                       /\ answer.ok
                       /\ answer.output[2] = tools_before[last_call.name].object
                 /\ behaviour # "output" =>
                       /\ ~answer.ok
                       /\ answer.error[1].tool_name = last_call.name
                       /\ answer.error[1].message[2] = tools_before[last_call.name].object
                       /\ answer.error[1].recoverable = (behaviour = "recoverable_error")

\* a name that is not registered was executed while another tool was
\* registered: nothing ran and the call failed
C21_Witness ==
    /\ last_call.op = "execute_tool"
    /\ last_call.name \notin DOMAIN tools_before
    /\ tool_count(tools) = 1
    /\ ~last_call.ok
    /\ tool_runs = << >>

----------------------------------------------------------------------------
(* C22 -- the conversation handed to the model.                            *)

\* the session messages that are not Tool messages, in session order
NonToolMessages == SelectSeq(session, LAMBDA m : m.role # "Tool")

\* 1 when documents were retrieved, 0 otherwise
ContextCount == IF search_results # << >> THEN 1 ELSE 0

\* C22: the conversation built for generation is one leading user-role context
\* message exactly when documents were retrieved, followed by the User and
\* Assistant messages of the session in session order with their roles and
\* contents; no Tool message is in it, and its length is the number of
\* non-Tool session messages plus one if there are documents.
C22_ConversationShape ==
    pc \in { "generate", "drain", "store" } =>
        /\ Len(llm_messages) = ContextCount + Len(NonToolMessages)
        /\ ContextCount = 1 =>
              /\ llm_messages[1].role = "user"
              /\ llm_messages[1].content[1] = "Context information from relevant documents:\n\n"
              /\ \A d \in DOMAIN search_results :
                    Contains(llm_messages[1].content,
                             << "From " >> \o search_results[d].file_name \o << ": " >>
                             \o search_results[d].content)
        /\ \A i \in DOMAIN NonToolMessages :
              /\ llm_messages[ContextCount + i].content = NonToolMessages[i].content
              /\ llm_messages[ContextCount + i].role =
                    (IF NonToolMessages[i].role = "User" THEN "user" ELSE "assistant")

\* a conversation was built from a session that holds User, Assistant and Tool
\* messages, with a retrieved document
C22_Witness ==
    /\ pc = "generate"
    /\ search_results # << >>
    /\ \E j \in DOMAIN session : session[j].role = "Tool"
    /\ \E j \in DOMAIN session : session[j].role = "Assistant"
    /\ Len(llm_messages) = 1 + Len(NonToolMessages)

----------------------------------------------------------------------------
(* C23 -- the table of error kinds.                                        *)

\* the table of the claim: kind -> << HTTP status, retryable >>
ErrorTable ==
    [EmbeddingError   |-> << 500, TRUE >>,
     ToolError        |-> << 400, FALSE >>,
     LlmError         |-> << 503, TRUE >>,
     DatabaseError    |-> << 500, TRUE >>,
     VectorStoreError |-> << 500, TRUE >>,
     SessionError     |-> << 422, FALSE >>,
     ConfigError      |-> << 500, FALSE >>,
     ValidationError  |-> << 400, FALSE >>]

\* C23: whatever its message, an error of each kind has the HTTP status and
\* the retryable flag of the table, and the error_event made of it carries
\* exactly these two values.
C23_ErrorTable ==
    error_sse # << >> =>
        /\ error_sse[1].event = "error_event"
        /\ error_sse[1].http_status = ErrorTable[agent_error.kind][1]
        /\ error_sse[1].retryable = ErrorTable[agent_error.kind][2]
        /\ http_status_code(agent_error) = ErrorTable[agent_error.kind][1]
        /\ is_retryable(agent_error) = ErrorTable[agent_error.kind][2]

\* the event of a Session error with a message that speaks of something else
C23_Witness ==
    /\ error_sse # << >>
    /\ agent_error.kind = "SessionError"
    /\ agent_error.msg = EmbedErrorText
    /\ error_sse[1].http_status = 422
    /\ error_sse[1].retryable = FALSE

-----------------------------------------------------------------------------
(* The chunker.                                                            *)

\* chunk_text has returned, under a configuration with 0 <= o < c
ChunkedValid ==
    /\ chunk_pc = "returned"
    /\ chunk_config.overlap_size < chunk_config.chunk_size

\* the tokens chunk number i (from 0) is to hold: [i*(c-o), min(i*(c-o)+c, n))
WindowFrom(i) == i * (chunk_config.chunk_size - chunk_config.overlap_size)

WindowTo(i) ==
    LET n == Len(SplitWhitespace(document_text))
    IN  IF WindowFrom(i) + chunk_config.chunk_size <= n
        THEN WindowFrom(i) + chunk_config.chunk_size ELSE n

\* the result is the one the windows of c tokens, o of them shared, describe
ChunkedByWindows ==
    LET tokens == SplitWhitespace(document_text)
        n      == Len(tokens)
        c      == chunk_config.chunk_size
        o      == chunk_config.overlap_size
        held(i) == SplitWhitespace(chunks[i].content)
    IN  IF n <= c
        THEN /\ Len(chunks) = 1
             /\ chunks[1].content = document_text
        ELSE /\ chunks # << >>
             /\ \A i \in 1..Len(chunks) :
                    /\ held(i) = SubSeq(tokens, WindowFrom(i - 1) + 1, WindowTo(i - 1))
                    /\ chunks[i].chunk_id = i - 1
             /\ WindowTo(Len(chunks) - 1) = n
             /\ \A t \in 1..n : \E i \in 1..Len(chunks) :
                    WindowFrom(i - 1) < t /\ t <= WindowTo(i - 1)
             /\ \A i \in 1..(Len(chunks) - 1) :
                    /\ WindowTo(i - 1) - WindowFrom(i) = o
                    /\ Len(held(i)) >= o /\ Len(held(i + 1)) >= o
                    /\ SubSeq(held(i), Len(held(i)) - o + 1, Len(held(i)))
                         = SubSeq(held(i + 1), 1, o)

\* C24 as stated: chunk_text with 0 <= o < c returns one chunk equal to the
\* whole text when the text has n <= c tokens, and otherwise chunk i holds the
\* tokens [i*(c-o), min(i*(c-o)+c, n)), the ids count from 0, the last chunk
\* ends at the last token, every token is in a chunk and adjacent chunks share
\* exactly o tokens, the tail of one being the head of the next.
C24_ChunkWindows_AnyText == ChunkedValid => ChunkedByWindows

\* C24, amended: the statement holds of every text that is not empty; the
\* empty text has no chunk at all.
C24_ChunkWindows ==
    ChunkedValid =>
        IF document_text = << >> THEN chunks = << >> ELSE ChunkedByWindows

\* a text of four tokens was cut into three chunks that share one token each
C24_Witness ==
    /\ ChunkedValid
    /\ Len(SplitWhitespace(document_text)) = 4
    /\ chunk_config = ChunkConfig(2, 1)
    /\ Len(chunks) = 3

\* a token of s starts at offset p
IsTokenStart(s, p) ==
    /\ p < Len(s)
    /\ s[p + 1] \notin Whitespace
    /\ p = 0 \/ s[p] \in Whitespace

\* a token of s ends just before offset p
IsTokenEnd(s, p) ==
    /\ p >= 1
    /\ s[p] \notin Whitespace
    /\ p = Len(s) \/ s[p + 1] \in Whitespace

\* the offset of token number k (from 1) of s, and the offset just past it
TokenStartOffset(s, k) ==
    CHOOSE p \in 0..Len(s) :
        IsTokenStart(s, p) /\ Cardinality({ q \in 0..(p - 1) : IsTokenStart(s, q) }) = k - 1

TokenEndOffset(s, k) ==
    CHOOSE p \in 0..Len(s) :
        IsTokenEnd(s, p) /\ Cardinality({ q \in 1..(p - 1) : IsTokenEnd(s, q) }) = k - 1

\* the tokens of the text are separated by single spaces
SingleSpaced ==
    document_text = JoinWords(SplitWhitespace(document_text), << " " >>)

\* C25: in every result of several chunks on a text whose tokens are separated
\* by single spaces, start_pos of a chunk is the offset of its first token,
\* end_pos the offset just past its last token, and the text between the two
\* offsets is the content of the chunk.
C25_OffsetsOnTokenBoundaries ==
    (ChunkedValid /\ SingleSpaced /\ Len(chunks) >= 2) =>
        \A i \in 1..Len(chunks) :
            /\ chunks[i].start_pos = TokenStartOffset(document_text, WindowFrom(i - 1) + 1)
            /\ chunks[i].end_pos = TokenEndOffset(document_text, WindowTo(i - 1))
            /\ SubSeq(document_text, chunks[i].start_pos + 1, chunks[i].end_pos)
                 = chunks[i].content

\* C26: embed of an empty list returns, for each of the four embedding
\* providers, the empty list without an error, a remote call or a sleep.
C26_EmptyEmbed ==
    (provider # "call_claude" /\ texts = << >> /\ returned # << >>) =>
        /\ returned = << RetOk(<< >>) >>
        /\ trace = << >>

\* Bedrock Titan's embed of the empty list has returned
C26_Witness ==
    /\ provider = "bedrock_titan"
    /\ texts = << >>
    /\ max_retries = 2
    /\ returned # << >>

-----------------------------------------------------------------------------
(* The session stores.                                                     *)

\* the operations so far are appends that did not overlap
SequentialAppends ==
    \A i \in DOMAIN session_log :
        /\ session_log[i].op \in { "append", "append_failed" }
        /\ ~session_log[i].concurrent

\* the messages appended to session id of the store, in append order
AppendedTo(store, id) ==
    LET done == SelectSeq(session_log,
                    LAMBDA e : e.store = store /\ e.op = "append" /\ e.id = id)
    IN  [i \in 1..Len(done) |-> done[i].message]

\* C27: after appends made one after the other, get of a session returns the
\* messages appended to that session in append order, whatever was appended
\* to the other sessions, and the empty list for a session never appended to.
C27_GetReturnsAppended ==
    SequentialAppends =>
        \A id \in SessionIds :
            /\ session_store_get(memory_sessions, id) = AppendedTo("memory", id)
            /\ redis_get(redis_keys, id) = AppendedTo("redis", id)

\* two messages were appended to session s1 of Redis and one to s2, nothing
\* to the store in memory
C27_Witness ==
    /\ SequentialAppends
    /\ appending = << >>
    /\ Len(AppendedTo("redis", "s1")) = 2
    /\ AppendedTo("redis", "s1")[1] # AppendedTo("redis", "s1")[2]
    /\ Len(AppendedTo("redis", "s2")) = 1

-----------------------------------------------------------------------------
(* The order of the phases of one request.                                 *)

\* the phase call number i belongs to: 1 persist, 2 tools, 3 embedding,
\* 4 retrieval, 5 generation.  An append right after execute_tool stores its
\* Tool message, an append after call_claude the Assistant message.
CallPhase(i) ==
    CASE calls[i].op = "execute_tool" -> 2
      [] calls[i].op = "embed" -> 3
      [] calls[i].op = "search_similar" -> 4
      [] calls[i].op \in { "get", "call_claude" } -> 5
      [] OTHER ->
           IF i > 1 /\ calls[i - 1].op = "execute_tool" THEN 2
           ELSE IF \E j \in 1..(i - 1) : calls[j].op = "call_claude" THEN 5
           ELSE 1

CallsOfPhase(p) == { i \in DOMAIN calls : CallPhase(i) = p }

\* a phase has started only after the one before it was over
PhasesInOrder ==
    /\ \A i, j \in DOMAIN calls : i < j => CallPhase(i) <= CallPhase(j)
    /\ (\E i \in DOMAIN calls : CallPhase(i) >= 2) =>
            /\ Cardinality(CallsOfPhase(1)) = Len(messages)
            /\ \A i \in CallsOfPhase(1) : calls[i].ok
    /\ (\E i \in DOMAIN calls : CallPhase(i) >= 3) =>
            /\ Len(CallsOf("execute_tool")) = Len(tool_calls)
            /\ \A i \in CallsOfPhase(2) : calls[i].op = "append" => calls[i].ok
    /\ (\E i \in DOMAIN calls : CallPhase(i) >= 4) =>
            /\ CallsOf("embed")[1].ok
            /\ CallsOf("embed")[1].detail # "empty"
    /\ (\E i \in DOMAIN calls : CallPhase(i) >= 5) => CallsOf("search_similar")[1].ok
    /\ \A op \in { "embed", "search_similar", "get", "call_claude" } : Len(CallsOf(op)) <= 1
    /\ delivered # << >> => (CallsOf("call_claude") # << >> /\ CallsOf("call_claude")[1].ok)

\* the tool_usage events come before every other event
ToolEventsFirst(evs) ==
    \A i, j \in DOMAIN evs :
        (i < j /\ evs[j].event = "tool_usage") => evs[i].event = "tool_usage"

\* a step emits its events behind the ones emitted before, and a tool_usage
\* event only before embed has been called
EmittedInOrder ==
    /\ IsPrefix(events, events')
    /\ \A i \in (Len(events) + 1)..Len(events') :
           events'[i].event = "tool_usage" => CallsOf("embed") = << >>

\* C28: within one request the phases persist, tools, embedding, retrieval and
\* generation run in this order, each starting only after the one before it
\* is over; all tool_usage events of the returned sequence precede its
\* content_delta, assistant_output and stream_end events, and the events are
\* returned in the order in which they were emitted.
C28_PhasesInOrder ==
    /\ [](/\ PhasesInOrder
          /\ ToolEventsFirst(events)
          /\ (Finished /\ result.ok) => result.events = events)
    /\ [][EmittedInOrder]_vars

\* a request ran two tools and went through all five phases down to the
\* Assistant message, returning tool_usage, content_delta and stream_end events
C28_Witness ==
    /\ pc = "returned"
    /\ result.ok
    /\ Len(EventsOf(result.events, "tool_usage")) = 2
    /\ EventsOf(result.events, "content_delta") # << >>
    /\ EventsOf(result.events, "stream_end") # << >>
    /\ \A p \in 1..5 : CallsOfPhase(p) # { }
    /\ calls[Len(calls)].op = "append"

-----------------------------------------------------------------------------
(* The appends of one request.                                             *)

\* the messages the request asked the session store to append, in order
AppendsAsked == ArgsOf(CallsOf("append"))

\* the Tool messages of the executions that succeeded, in detection order
ToolMessagesOfRuns ==
    LET runs == SelectSeq(calls, LAMBDA c : c.op = "execute_tool" /\ c.ok)
    IN  [i \in 1..Len(runs) |->
            Message("Tool", execute_tool(runs[i].arg, runs[i].detail).result, "tool_result")]

\* C29: the appends of a request that runs alone are the new messages in the
\* given order, then one Tool message per successful tool execution in
\* detection order, then at most one Assistant message, which is the last
\* append of the request; the session afterwards is the session before
\* followed by the appends the store accepted.
C29_AppendOrder ==
    /\ \E k \in 0..Len(messages), a \in 0..1 :
         /\ Len(AppendsAsked) = k + Len(ToolMessagesOfRuns) + a
         /\ SubSeq(AppendsAsked, 1, k) = SubSeq(messages, 1, k)
         /\ SubSeq(AppendsAsked, k + 1, k + Len(ToolMessagesOfRuns)) = ToolMessagesOfRuns
         /\ (Len(ToolMessagesOfRuns) > 0 \/ a = 1) => k = Len(messages)
         /\ a = 1 =>
              /\ AppendsAsked[Len(AppendsAsked)] = Message("Assistant", full_response, "None")
              /\ calls[Len(calls)].op = "append"
         /\ Finished => (k = Len(messages) \/ ~result.ok)
    /\ \A i \in DOMAIN calls : (calls[i].op = "append" /\ ~calls[i].ok) => i = Len(calls)
    /\ session = session0 \o ArgsOf(SelectSeq(calls, LAMBDA c : c.op = "append" /\ c.ok))

\* a request appended its new message, the Tool messages of two successful
\* executions and the Assistant message
C29_Witness ==
    /\ pc = "returned"
    /\ result.ok
    /\ messages # << >>
    /\ Len(ToolMessagesOfRuns) = 2
    /\ Len(AppendsAsked) = Len(messages) + 3
    /\ AppendsAsked[Len(AppendsAsked)].role = "Assistant"
    /\ session = session0 \o AppendsAsked

\* C30: a request that process_message handles successfully returns at least
\* one event, whatever the input and whatever the generation stream does.
C30_AtLeastOneEvent == (Finished /\ result.ok) => result.events # << >>

-----------------------------------------------------------------------------
(* Errors and endings of the generation stream.                            *)

\* the delivered items that report an error of the stream
ErrorItems == { i \in DOMAIN delivered : delivered[i].kind \in { "Err", "Error" } }

-----------------------------------------------------------------------------
(* Appends to Redis that overlap.                                          *)

\* how often message occurs in msgs
Occurrences(msgs, message) == Cardinality({ i \in DOMAIN msgs : msgs[i] = message })

\* nothing but appends, overlapping or not, has been done to the stores
OnlyAppends ==
    \A i \in DOMAIN session_log : session_log[i].op \in { "append", "append_failed" }

\* C32: when requests append to one session at the same time, every message
\* whose append returned Ok is in the session exactly as often as it was
\* appended: no append is lost to the read-modify-write of another request.
C32_NoLostAppend ==
    OnlyAppends =>
        \A id \in SessionIds, message \in SessionMessages :
            Occurrences(redis_get(redis_keys, id), message)
                = Occurrences(AppendedTo("redis", id), message)

\* C33: a stream_end event is emitted iff the stream delivered MessageStop,
\* which it can only do before a failed item or its end; there is at most one
\* stream_end event and it is the last event; when the stream ends without
\* MessageStop and without a failed item, neither a stream_end event nor an
\* explanation is emitted.
C33_StreamEndIffMessageStop ==
    LET stops == { i \in DOMAIN delivered : delivered[i] = MessageStop }
        ends  == { i \in DOMAIN events : events[i].event = "stream_end" }
    IN  /\ (ends # { }) <=> (stops # { })
        /\ \A i \in stops : \A j \in 1..(i - 1) : delivered[j].kind \notin { "Err", "None" }
        /\ Cardinality(ends) <= 1
        /\ \A i \in ends : i = Len(events)
        /\ (delivered # << >> /\ delivered[Len(delivered)] = EndOfStream) =>
              /\ ends = { }
              /\ EventsOf(events, "assistant_output") = << >>

\* a stream delivered two texts and MessageStop: stream_end is the last of
\* the three events of the request
C33_Witness ==
    /\ pc = "returned"
    /\ Len(delivered) = 3
    /\ delivered[3] = MessageStop
    /\ Len(events) = 3
    /\ events[3] = create_stream_end_event
    /\ events[1].event = "content_delta"

\* the appends of the generation phase: the Assistant message of the request
AssistantAppends == { i \in DOMAIN calls : calls[i].op = "append" /\ CallPhase(i) = 5 }

\* the texts of the content_delta events emitted, in order
EmittedTexts ==
    LET deltas == EventsOf(events, "content_delta")
    IN  [i \in 1..Len(deltas) |-> deltas[i].content]

\* C34: at the end of a request the Orchestrator has appended an Assistant
\* message iff a content_delta event was emitted; the content of the message
\* is the concatenation of the contents of the content_delta events in order,
\* and there is at most one such message per request.
C34_AssistantIffDelta ==
    Finished =>
        /\ Cardinality(AssistantAppends) <= 1
        /\ (AssistantAppends # { }) <=> (EmittedTexts # << >>)
        /\ \A i \in AssistantAppends :
              /\ calls[i].arg = Message("Assistant", Concat(EmittedTexts), "None")
              /\ calls[i].ok => (session # << >> /\ session[Len(session)] = calls[i].arg)

\* after two content_delta events the Assistant message with both texts is
\* the last message of the session
C34_Witness ==
    /\ pc = "returned"
    /\ Len(EmittedTexts) = 2
    /\ EmittedTexts[1] # EmittedTexts[2]
    /\ AssistantAppends # { }
    /\ session # << >>
    /\ session[Len(session)] = Message("Assistant", Concat(EmittedTexts), "None")

\* the stream delivered nothing but empty content deltas and then MessageStop
OnlyEmptyDeltasThenStop ==
    /\ Len(delivered) >= 2
    /\ delivered[Len(delivered)] = MessageStop
    /\ \A i \in 1..(Len(delivered) - 1) : delivered[i] = Delta(<< >>)

\* C35: a content delta with empty text emits no event and leaves the
\* accumulated text as it is; a stream of empty deltas followed by
\* MessageStop yields stream_end as its only event and no Assistant message.
C35_EmptyDeltaIgnored ==
    /\ EmittedTexts = DeltaTextsOf(delivered)
    /\ pc \in { "drain", "store" } => full_response = Concat(DeltaTextsOf(delivered))
    /\ OnlyEmptyDeltasThenStop =>
          /\ SelectSeq(events, LAMBDA e : e.event # "tool_usage") = << create_stream_end_event >>
          /\ AssistantAppends = { }
          /\ Finished => result = Ok(events)

\* a request without tools whose stream was two empty deltas and MessageStop
\* returned the stream_end event alone
C35_Witness ==
    /\ pc = "returned"
    /\ delivered = << Delta(<< >>), Delta(<< >>), MessageStop >>
    /\ result = Ok(<< create_stream_end_event >>)
    /\ session = session0 \o messages

\* once items of the stream have been delivered, a step makes no call of
\* call_claude and leaves the events emitted so far in place
NoRetryInsideStreamStep ==
    delivered # << >> =>
        /\ CallsOf("call_claude")' = CallsOf("call_claude")
        /\ IsPrefix(events, events')

\* C36: retry and fallback belong to the opening of the stream alone: once
\* call_claude has returned a stream, an error inside the stream leads to no
\* further call of call_claude, and the content emitted from the stream is
\* neither taken back nor emitted again.
C36_NoRetryInsideStream ==
    /\ [](/\ Len(CallsOf("call_claude")) <= 1
          /\ delivered # << >> =>
                /\ CallsOf("call_claude") # << >>
                /\ CallsOf("call_claude")[1].ok
          /\ EventsOf(events, "content_delta") = DeltaEventsOf(delivered))
    /\ [][NoRetryInsideStreamStep]_vars

\* a stream failed after one text: the text and the explanation were emitted
\* and call_claude was called once
C36_Witness ==
    /\ pc = "returned"
    /\ Len(delivered) = 2
    /\ delivered[1] = Delta(<< "Hi" >>)
    /\ delivered[2] = StreamFailure
    /\ Len(CallsOf("call_claude")) = 1
    /\ Len(events) = 2
    /\ events[1] = create_streaming_content_event(<< "Hi" >>)
    /\ events[2].event = "assistant_output"

\* C37: chunk_text returns for every text and configuration, overlap_size >=
\* chunk_size and chunk_size = 0 included, because the start of the window
\* moves forward in every turn of the loop.
C37_WindowStartIncreases ==
    [][(chunk_pc = "loop" /\ chunk_pc' = "loop" /\ chunks' # chunks)
          => start_token_idx' > start_token_idx]_vars

-----------------------------------------------------------------------------
(* The keys of the registry.                                               *)

\* C38: after any registers and removals every entry of the registry is stored
\* under the name of its tool, so the tool execute_tool runs is handed an
\* invocation with its own name and validate_input never fails.
C38_StoredUnderOwnName ==
    /\ \A key \in DOMAIN tools : tools[key].name = key
    /\ last_call.op = "execute_tool" =>
          \A i \in DOMAIN tool_runs :
              /\ tool_runs[i].name = last_call.name
              /\ validate_input(tool_runs[i], last_call.name) = << >>
              /\ ~last_call.ok =>
                    last_call.returned[1].error[1].message[1] # "Expected tool '"

\* with two tools registered, execute_tool ran the second object registered
\* under a name and the tool failed with an error of its own
C38_Witness ==
    /\ Cardinality(DOMAIN tools) = 2
    /\ last_call.op = "execute_tool"
    /\ Len(tool_runs) = 1
    /\ tool_runs[1].object = "tool2"
    /\ ~last_call.ok

-----------------------------------------------------------------------------
(* The dimension of the provider and of the store.                         *)

\* C39: for every configuration create_embedding_provider accepts the vectors
\* the provider is asked to produce have length dimension(), and a vector of
\* the provider never fails the dimension check of the PostgreSQL store built
\* with that dimension(), at insertion or at retrieval.
C39_VectorsHaveStoreDimension ==
    /\ embeddings_client # << >> =>
          requested_length(embeddings_client[1]) = embeddings_client[1].dimension
    /\ dimension_check # << >> => dimension_check[1].ok
====
